---- MODULE Spec2Model ----
(***************************************************************************)
(* sneak-link: a knock-to-enter access gateway.  The model covers the      *)
(* request handler (handlers.Handler.ServeHTTP), the sliding-window rate   *)
(* limiter (ratelimit.RateLimiter), the signed session tokens (auth) and   *)
(* the share validation strategies of the service proxies (proxy),         *)
(* config.Load and the start and end of the process (main).                *)
(*                                                                         *)
(* Time is a discrete clock `now`; every call of time.Now() inside one     *)
(* handler run reads the same instant.  Strings that the code inspects     *)
(* character by character (paths, tokens) are sequences.                   *)
(***************************************************************************)
EXTENDS Integers, Sequences, FiniteSets, TLC

\* ------------------------------------------------------------------ bounds
\* Last instant of the clock.
MaxTime == 4
\* RateLimiter.maxReqs and RateLimiter.window (cfg.RateLimitRequests,
\* cfg.RateLimitWindow), and cfg.CookieMaxAge, in clock units.
maxReqs == 2
window == 3
CookieMaxAge == 1

\* Longest share key and longest rest of a share path given to
\* extractShareKey.
MaxKeyLen == 2
MaxRestLen == 2

\* Most requests in flight at once in SpecMain.
MaxInFlight == 2

VARIABLES
    now,            \* the clock read by time.Now()
    requests,       \* RateLimiter.requests: map ip -> list of admission times
    issued,         \* the tokens GenerateToken has returned so far
    last,           \* what the latest ServeHTTP run received and did
    callLog,        \* per ip, the direct IsAllowed calls made so far: the instant,
                    \* the answer and the entries counted (those in the window)
    call,           \* the latest direct call of a function of the auth or proxy package
    proc,           \* the gateway process: where main stands, its environment and what it has created
    gor,            \* per goroutine of the limiter: where it stands in IsAllowed or cleanup, and its locals
    mutex           \* RateLimiter.mutex: the goroutines that hold it

vars == <<now, requests, issued, last, callLog, call, proc, gor, mutex>>

\* ------------------------------------------------------------ plain helpers
HasPrefix(s, p) == Len(s) >= Len(p) /\ SubSeq(s, 1, Len(p)) = p

TrimPrefix(s, p) == IF HasPrefix(s, p) THEN SubSeq(s, Len(p) + 1, Len(s)) ELSE s

\* strings.Index for a one-character needle: 0-based index, -1 when absent.
Index(s, c) ==
    IF \E i \in 1..Len(s) : s[i] = c
    THEN (CHOOSE i \in 1..Len(s) : s[i] = c /\ \A j \in 1..(i - 1) : s[j] # c) - 1
    ELSE -1

\* Mutant: the store keeps only the key that is written.
MapPutAlone(m, k, v) == [x \in {k} |-> v]

\* m[k] = v on a Go map held as a function.
MapPut(m, k, v) == [x \in (DOMAIN m) \cup {k} |-> IF x = k THEN v ELSE m[x]]

\* m[k] with Go's zero value (a nil slice) for a missing key.
MapGet(m, k) == IF k \in DOMAIN m THEN m[k] ELSE <<>>

\* ------------------------------------------------------------ rate limiter
ClientIPs == {"ip1", "ip2"}

\* Mutant: an instant is after itself.
AfterOrAt(t, cutoff) == t >= cutoff

\* reqTime.After(cutoff)
After(t, cutoff) == t > cutoff

\* Mutant: an entry recorded exactly window ago is still inside the window.
ValidRequestsClosed(reqs, ip, t) ==
    LET cutoff == t - window
        InWindow(reqTime) == reqTime >= cutoff
    IN  SelectSeq(MapGet(reqs, ip), InWindow)

\* The entries of one identity that are still inside the window at time t.
ValidRequests(reqs, ip, t) ==
    LET cutoff == t - window
        InWindow(reqTime) == After(reqTime, cutoff)
    IN  SelectSeq(MapGet(reqs, ip), InWindow)

\* Mutant: the limit test is off by one.
IsAllowedOffByOne(reqs, ip, t) ==
    LET validRequests == ValidRequests(reqs, ip, t)
    IN  IF Len(validRequests) > maxReqs
        THEN [allowed |-> FALSE, requests |-> MapPut(reqs, ip, validRequests)]
        ELSE [allowed |-> TRUE,
              requests |-> MapPut(reqs, ip, Append(validRequests, t))]

\* Mutant: a refused attempt is recorded too.
IsAllowedCountsRefused(reqs, ip, t) ==
    LET validRequests == ValidRequests(reqs, ip, t)
    IN  IF Len(validRequests) >= maxReqs
        THEN [allowed |-> FALSE,
              requests |-> MapPut(reqs, ip, Append(validRequests, t))]
        ELSE [allowed |-> TRUE,
              requests |-> MapPut(reqs, ip, Append(validRequests, t))]

\* RateLimiter.IsAllowed at time t: the answer and the map it leaves behind.
IsAllowed(reqs, ip, t) ==
    LET validRequests == ValidRequests(reqs, ip, t)
    IN  IF Len(validRequests) >= maxReqs
        THEN [allowed |-> FALSE, requests |-> MapPut(reqs, ip, validRequests)]
        ELSE [allowed |-> TRUE,
              requests |-> MapPut(reqs, ip, Append(validRequests, t))]

\* RateLimiter.GetRequestCount at time t.
GetRequestCount(reqs, ip, t) == Len(ValidRequests(reqs, ip, t))

\* Mutant: the pass prunes every list but deletes no identity.
CleanupPassKeepsIdentities(reqs, t) ==
    [ip \in DOMAIN reqs |-> ValidRequests(reqs, ip, t)]

\* Mutant: the pass cuts one instant too late and drops entries that are
\* still inside the window.
CleanupPassCutsLate(reqs, t) ==
    LET kept == {ip \in DOMAIN reqs : Len(ValidRequests(reqs, ip, t + 1)) # 0}
    IN  [ip \in kept |-> ValidRequests(reqs, ip, t + 1)]

\* One pass of the body of RateLimiter.cleanup's ticker loop at time t.
CleanupPass(reqs, t) ==
    LET kept == {ip \in DOMAIN reqs : Len(ValidRequests(reqs, ip, t)) # 0}
    IN  [ip \in kept |-> ValidRequests(reqs, ip, t)]

\* The goroutines that use the limiter at once: two that serve requests and
\* the cleanup goroutine.
RequestGoroutines == {"g1", "g2"}
CleanupGoroutine == "cleanup"
Goroutines == RequestGoroutines \cup {CleanupGoroutine}

\* A goroutine outside the limiter.
Idle == [pc |-> "idle", ip |-> "", now |-> 0, validRequests |-> <<>>]

\* Mutant: the lock is not exclusive, as if every caller took a read lock.
LockShared(holders) == TRUE

\* rl.mutex.Lock() goes through when no goroutine holds the mutex.
Lock(holders) == holders = {}

\* ------------------------------------------------------------------ config
\* config.SupportedServices.  Paths are sequences of characters.
SupportedServices ==
    [nextcloud |-> [Name |-> "nextcloud",
                    SharePaths |-> << <<"/", "s", "/">> >>,
                    ValidateMethod |-> "head",
                    FullAccessAfterKnock |-> TRUE],
     immich    |-> [Name |-> "immich",
                    SharePaths |-> << <<"/", "s", "h", "a", "r", "e", "/">> >>,
                    ValidateMethod |-> "immichApi",
                    FullAccessAfterKnock |-> TRUE],
     paperless |-> [Name |-> "paperless",
                    SharePaths |-> << <<"/", "s", "h", "a", "r", "e", "/">> >>,
                    ValidateMethod |-> "head",
                    FullAccessAfterKnock |-> FALSE]]

\* The service URLs of the environment (NEXTCLOUD_URL, IMMICH_URL,
\* PAPERLESS_URL), already split by url.Parse.
ServiceURLs ==
    [nextcloud |-> [Scheme |-> "https", Hostname |-> "cloud"],
     immich    |-> [Scheme |-> "https", Hostname |-> "photos"],
     paperless |-> [Scheme |-> "https", Hostname |-> "docs"]]

\* config.parseServiceConfig
parseServiceConfig(serviceType, serviceURL) ==
    [Type |-> serviceType, URL |-> serviceURL, Domain |-> serviceURL.Hostname]

\* cfg.Services as config.Load builds it: services[config.Domain] = config.
Services ==
    LET configs == {parseServiceConfig(t, ServiceURLs[t]) : t \in DOMAIN ServiceURLs}
    IN  [h \in {c.Domain : c \in configs} |-> CHOOSE c \in configs : c.Domain = h]

\* cfg.SigningKey, and a key the gateway does not hold.
SigningKey == "K1"
OtherKey == "K2"

\* ------------------------------------------------- config.Load, the process
\* The values of the environment.  "" is an unset variable (os.Getenv
\* returns "" for both); "%" is a string url.Parse rejects; "abc" is a string
\* strconv.Atoi rejects.
ParsedURLs ==
    ("https://cloud" :> [Scheme |-> "https", Hostname |-> "cloud"]) @@
    ("https://photos" :> [Scheme |-> "https", Hostname |-> "photos"]) @@
    ("https://docs" :> [Scheme |-> "https", Hostname |-> "docs"]) @@
    ("https://prism" :> [Scheme |-> "https", Hostname |-> "prism"])

Numerals ==
    ("-1" :> (0 - 1)) @@ ("0" :> 0) @@ ("1" :> 1) @@ ("2" :> 2) @@ ("3" :> 3) @@
    ("10" :> 10) @@ ("30" :> 30) @@ ("300" :> 300) @@ ("86400" :> 86400)

Environments ==
    [NEXTCLOUD_URL : {"", "%", "https://cloud"},
     IMMICH_URL : {"", "%", "https://photos"},
     PAPERLESS_URL : {"", "%", "https://docs"},
     PHOTOPRISM_URL : {"", "https://prism"},
     SIGNING_KEY : {"", SigningKey},
     COOKIE_MAX_AGE : {"", "abc", "1"},
     RATE_LIMIT_REQUESTS : {"", "2"},
     RATE_LIMIT_WINDOW : {"", "abc", "-1", "0", "3"},
     METRICS_RETENTION_DAYS : {""}]

\* The environment of the gateway that Spec and SpecLimiter run.
GatewayEnv ==
    [NEXTCLOUD_URL |-> "https://cloud", IMMICH_URL |-> "https://photos",
     PAPERLESS_URL |-> "https://docs", PHOTOPRISM_URL |-> "",
     SIGNING_KEY |-> SigningKey, COOKIE_MAX_AGE |-> "1",
     RATE_LIMIT_REQUESTS |-> "2", RATE_LIMIT_WINDOW |-> "3",
     METRICS_RETENTION_DAYS |-> ""]

\* url.Parse
urlParse(s) ==
    IF s \in DOMAIN ParsedURLs
    THEN [err |-> FALSE, url |-> <<ParsedURLs[s]>>]
    ELSE [err |-> TRUE, url |-> <<>>]

\* strconv.Atoi
Atoi(s) ==
    IF s \in DOMAIN Numerals
    THEN [err |-> FALSE, n |-> Numerals[s]]
    ELSE [err |-> TRUE, n |-> 0]

\* config.getEnvWithDefault
getEnvWithDefault(env, key, defaultValue) ==
    IF env[key] # "" THEN env[key] ELSE defaultValue

\* Load, one "Check for ..." block: the service of the variable `key` is
\* added to the table when the variable is set and its URL parses.  acc is
\* the table built so far and the error met so far.
checkFor(acc, env, serviceType, key) ==
    IF acc.err # "" \/ env[key] = ""
    THEN acc
    ELSE LET parsed == urlParse(env[key])
         IN  IF parsed.err
             THEN [acc EXCEPT !.err = "invalid " \o key]
             ELSE LET config == parseServiceConfig(serviceType, parsed.url[1])
                  IN  [acc EXCEPT !.services = MapPut(@, config.Domain, config)]

\* Load, the service blocks in their order.
loadServices(env) ==
    LET s0 == [services |-> <<>>, err |-> ""]
        s1 == checkFor(s0, env, "nextcloud", "NEXTCLOUD_URL")
        s2 == checkFor(s1, env, "immich", "IMMICH_URL")
        s3 == checkFor(s2, env, "paperless", "PAPERLESS_URL")
    IN  s3

\* Mutant: only the service table is required.
checkRequiredServicesOnly(services, signingKey) ==
    IF DOMAIN services = {}
    THEN "at least one service URL must be configured"
    ELSE ""

\* Load, the two requirements: a service and a signing key.
checkRequired(services, signingKey) ==
    IF DOMAIN services = {}
    THEN "at least one service URL must be configured"
    ELSE IF signingKey = ""
    THEN "SIGNING_KEY environment variable is required"
    ELSE ""

\* Load, the numbers among the optional variables.
loadNumbers(env) ==
    LET cookieMaxAge == Atoi(getEnvWithDefault(env, "COOKIE_MAX_AGE", "86400"))
        rateLimitRequests == Atoi(getEnvWithDefault(env, "RATE_LIMIT_REQUESTS", "10"))
        rateLimitWindow == Atoi(getEnvWithDefault(env, "RATE_LIMIT_WINDOW", "300"))
        metricsRetention == Atoi(getEnvWithDefault(env, "METRICS_RETENTION_DAYS", "30"))
    IN  [err |-> IF cookieMaxAge.err THEN "invalid COOKIE_MAX_AGE"
                 ELSE IF rateLimitRequests.err THEN "invalid RATE_LIMIT_REQUESTS"
                 ELSE IF rateLimitWindow.err THEN "invalid RATE_LIMIT_WINDOW"
                 ELSE IF metricsRetention.err THEN "invalid METRICS_RETENTION_DAYS"
                 ELSE "",
         CookieMaxAge |-> cookieMaxAge.n,
         RateLimitRequests |-> rateLimitRequests.n,
         RateLimitWindow |-> rateLimitWindow.n,
         MetricsRetentionDays |-> metricsRetention.n]

\* config.Load under the environment env: err is "" and cfg holds the
\* configuration, or err says why there is none.
Load(env) ==
    LET s == loadServices(env)
        required == checkRequired(s.services, env["SIGNING_KEY"])
        numbers == loadNumbers(env)
    IN  IF s.err # "" THEN [err |-> s.err, cfg |-> <<>>]
        ELSE IF required # "" THEN [err |-> required, cfg |-> <<>>]
        ELSE IF numbers.err # "" THEN [err |-> numbers.err, cfg |-> <<>>]
        ELSE [err |-> "",
              cfg |-> <<[Services |-> s.services,
                         CookieMaxAge |-> numbers.CookieMaxAge,
                         RateLimitRequests |-> numbers.RateLimitRequests,
                         RateLimitWindow |-> numbers.RateLimitWindow,
                         SigningKey |-> env["SIGNING_KEY"],
                         MetricsRetentionDays |-> numbers.MetricsRetentionDays]>>]

\* The process before main has run under env, and the process that serves:
\* main has loaded the configuration, made the rate limiter (whose cleanup
\* goroutine has made its ticker) and started the listener.
Started(env) ==
    [pc |-> "start", env |-> env, err |-> "", cfg |-> <<>>,
     limiter |-> FALSE, ticker |-> FALSE, listener |-> FALSE, inflight |-> 0]

Serving ==
    [pc |-> "serving", env |-> GatewayEnv, err |-> "", cfg |-> Load(GatewayEnv).cfg,
     limiter |-> TRUE, ticker |-> TRUE, listener |-> TRUE, inflight |-> 0]

\* ------------------------------------------------------------------ tokens
\* A token string is a sequence of symbols: the separator and the base64
\* words.  The base64 of the claims JSON is a claims word; the base64 of an
\* HMAC is a signature word that names the key and the text it was made over.
Dot == [kind |-> "dot"]
ClaimsWord(iat, exp) == [kind |-> "claims", iat |-> iat, exp |-> exp]

\* Mutant: the signature is a plain hash of the text, the key is not used.
HmacWordUnkeyed(key, text) == [kind |-> "hmac", key |-> "", text |-> text]

\* The base64 of HMAC-SHA256(key, text), as an ideal MAC: two signature words
\* are equal only when made with the same key over the same text.
HmacWord(key, text) == [kind |-> "hmac", key |-> key, text |-> text]
JunkWord == [kind |-> "junk"]

\* Mutant: the lifetime counts from the instant after the issue.
GenerateTokenLateExpiry(maxAge, signingKey, t) ==
    LET claimsB64 == <<ClaimsWord(t, t + maxAge + 1)>>
        signature == <<HmacWord(signingKey, claimsB64)>>
    IN  claimsB64 \o <<Dot>> \o signature

\* auth.GenerateToken at time t.
GenerateToken(maxAge, signingKey, t) ==
    LET claimsB64 == <<ClaimsWord(t, t + maxAge)>>
        signature == <<HmacWord(signingKey, claimsB64)>>
    IN  claimsB64 \o <<Dot>> \o signature

\* auth.splitToken: the loop over the characters, then the trailing part.
RECURSIVE splitLoop(_, _, _)
splitLoop(token, parts, current) ==
    IF token = <<>>
    THEN IF current # <<>> THEN Append(parts, current) ELSE parts
    ELSE IF Head(token) = Dot
         THEN splitLoop(Tail(token), Append(parts, current), <<>>)
         ELSE splitLoop(Tail(token), parts, Append(current, Head(token)))

splitToken(token) == splitLoop(token, <<>>, <<>>)

\* Mutant: a token is already expired at its expiresAt.
ExpiredAtExpiry(t, expiresAt) == t >= expiresAt

\* ValidateToken's expiry test: time.Now().After(claims.ExpiresAt).
Expired(t, expiresAt) == After(t, expiresAt)

\* Mutant: the claims are decoded and the expiry tested before the signature
\* is verified.
ValidateTokenDecodesFirst(token, signingKey, t) ==
    LET parts == splitToken(token)
    IN  IF Len(parts) # 2
        THEN [err |-> "invalid token format", claims |-> <<>>]
        ELSE LET claimsB64 == parts[1]
                 signatureB64 == parts[2]
                 expectedSignature == <<HmacWord(signingKey, claimsB64)>>
             IN  IF ~(Len(claimsB64) = 1 /\ claimsB64[1].kind = "claims")
                 THEN [err |-> "failed to decode claims", claims |-> <<>>]
                 ELSE IF Expired(t, claimsB64[1].exp)
                 THEN [err |-> "token expired", claims |-> <<>>]
                 ELSE IF signatureB64 # expectedSignature
                 THEN [err |-> "invalid token signature", claims |-> <<>>]
                 ELSE [err |-> "",
                       claims |-> <<[IssuedAt |-> claimsB64[1].iat,
                                     ExpiresAt |-> claimsB64[1].exp]>>]

\* auth.ValidateToken at time t: err is "" when the claims are returned.
ValidateToken(token, signingKey, t) ==
    LET parts == splitToken(token)
    IN  IF Len(parts) # 2
        THEN [err |-> "invalid token format", claims |-> <<>>]
        ELSE LET claimsB64 == parts[1]
                 signatureB64 == parts[2]
                 expectedSignature == <<HmacWord(signingKey, claimsB64)>>
             IN  IF signatureB64 # expectedSignature
                 THEN [err |-> "invalid token signature", claims |-> <<>>]
                 ELSE IF ~(Len(claimsB64) = 1 /\ claimsB64[1].kind = "claims")
                 THEN [err |-> "failed to decode claims", claims |-> <<>>]
                 ELSE IF Expired(t, claimsB64[1].exp)
                 THEN [err |-> "token expired", claims |-> <<>>]
                 ELSE [err |-> "",
                       claims |-> <<[IssuedAt |-> claimsB64[1].iat,
                                     ExpiresAt |-> claimsB64[1].exp]>>]

\* ------------------------------------------------------------------- proxy
\* Mutant: an unknown hostname falls back to the NextCloud proxy.
GetProxyFallback(hostname) ==
    IF hostname \in DOMAIN Services THEN <<Services[hostname]>> ELSE <<Services["cloud"]>>

\* ProxyManager.GetProxy: the service proxy bound to a hostname, <<>> for nil.
GetProxy(hostname) ==
    IF hostname \in DOMAIN Services THEN <<Services[hostname]>> ELSE <<>>

\* Mutant: the key is cut at the first '/' only, a query stays in it.
extractShareKeyKeepsQuery(sharePath, prefix) ==
    IF ~HasPrefix(sharePath, prefix)
    THEN <<>>
    ELSE LET key0 == TrimPrefix(sharePath, prefix)
         IN  IF Index(key0, "/") # -1
             THEN SubSeq(key0, 1, Index(key0, "/")) ELSE key0

\* proxy.extractShareKey
extractShareKey(sharePath, prefix) ==
    IF ~HasPrefix(sharePath, prefix)
    THEN <<>>
    ELSE LET key0 == TrimPrefix(sharePath, prefix)
             key1 == IF Index(key0, "/") # -1
                     THEN SubSeq(key0, 1, Index(key0, "/")) ELSE key0
             key2 == IF Index(key1, "?") # -1
                     THEN SubSeq(key1, 1, Index(key1, "?")) ELSE key1
         IN  key2

\* What a backend does with one request: a transport error or a status.
TransportError == [err |-> TRUE, status |-> 0]
Answer(status) == [err |-> FALSE, status |-> status]
NoAnswer == [err |-> FALSE, status |-> 0]

\* Mutant: a failed HEAD request is reported as an invalid share.
validateByHeadSwallowsError(sharePath, answer) ==
    IF answer.err
    THEN [valid |-> FALSE, status |-> 0, err |-> FALSE, asked |-> TRUE]
    ELSE [valid |-> answer.status = 200, status |-> answer.status,
          err |-> FALSE, asked |-> TRUE]

\* ServiceProxy.validateByHead, given the backend's answer to the HEAD probe.
validateByHead(sharePath, answer) ==
    IF answer.err
    THEN [valid |-> FALSE, status |-> 0, err |-> TRUE, asked |-> TRUE]
    ELSE [valid |-> answer.status = 200, status |-> answer.status,
          err |-> FALSE, asked |-> TRUE]

\* ServiceProxy.validateImmichAPI, given the API endpoint's answer.
validateImmichAPI(sharePath, answer) ==
    LET key == extractShareKey(sharePath, <<"/", "s", "h", "a", "r", "e", "/">>)
    IN  IF key = <<>>
        THEN [valid |-> FALSE, status |-> 400, err |-> TRUE, asked |-> FALSE]
        ELSE IF answer.err
        THEN [valid |-> FALSE, status |-> 0, err |-> TRUE, asked |-> TRUE]
        ELSE [valid |-> answer.status = 200, status |-> answer.status,
              err |-> FALSE, asked |-> TRUE]

\* ServiceProxy.ValidateShare
ValidateShare(sp, sharePath, answer) ==
    IF sp.Type \notin DOMAIN SupportedServices
    THEN [valid |-> FALSE, status |-> 0, err |-> TRUE, asked |-> FALSE]
    ELSE LET method == SupportedServices[sp.Type].ValidateMethod
         IN  IF method = "head" THEN validateByHead(sharePath, answer)
             ELSE IF method = "immichApi" THEN validateImmichAPI(sharePath, answer)
             ELSE validateByHead(sharePath, answer)

\* Mutant: a failed forward is answered 500.
ProxyStatusInternalError(answer) == IF answer.err THEN 500 ELSE answer.status

\* ServiceProxy.ServeHTTP: the status the client gets for a forwarded request
\* (the ErrorHandler answers 502 when the backend cannot be reached).
ProxyStatus(answer) == IF answer.err THEN 502 ELSE answer.status

\* ----------------------------------------------------------------- handler
\* What one run of the handler did.  status is the status the client
\* receives; access, events and validations are the records handed to
\* LogAccess, LogSecurity and LogValidation, in order; steps are the calls
\* of a granted knock in the order the handler makes them.
Outcome ==
    [status |-> 0, forwarded |-> FALSE, setCookie |-> <<>>, generated |-> <<>>,
     rlCalled |-> FALSE, allowed |-> FALSE, validated |-> FALSE, probed |-> FALSE,
     events |-> <<>>, access |-> <<>>, validations |-> <<>>,
     probe |-> NoAnswer, fwd |-> NoAnswer, steps |-> <<>>]

\* Mutant: the error response is written without the access record.
DenyUnlogged(o, status) ==
    [o EXCEPT !.status = status]

\* http.Error(w, ..., status) followed by logger.LogAccess(..., status, ...).
Deny(o, status) ==
    [o EXCEPT !.status = status, !.access = Append(@, status)]

\* serviceProxy.ServeHTTP(w, r) followed by logger.LogAccess(..., 200, ...).
Forward(o, fwd) ==
    [o EXCEPT !.status = ProxyStatus(fwd), !.forwarded = TRUE, !.fwd = fwd,
              !.access = Append(@, 200),
              !.steps = Append(@, "serviceProxy.ServeHTTP")]

\* Mutant: the share prefixes of every supported service are accepted.
isSharePathAnyService(path, serviceType) ==
    \E s \in DOMAIN SupportedServices :
      \E i \in 1..Len(SupportedServices[s].SharePaths) :
        HasPrefix(path, SupportedServices[s].SharePaths[i])

\* Handler.isSharePath
isSharePath(path, serviceType) ==
    \E i \in 1..Len(serviceType.SharePaths) : HasPrefix(path, serviceType.SharePaths[i])

\* Mutant: the cookie is scoped to the NextCloud domain whatever the service.
SessionCookieOneDomain(token, serviceConfig) ==
    [Name |-> "sneak-link-token", Value |-> token,
     Domain |-> "cloud", MaxAge |-> CookieMaxAge]

\* The cookie handleShareKnock sets.
SessionCookie(token, serviceConfig) ==
    [Name |-> "sneak-link-token", Value |-> token,
     Domain |-> serviceConfig.Domain, MaxAge |-> CookieMaxAge]

\* Mutant: every invalid share is reported as an invalid_share_attempt.
denyInvalidShareAlwaysEvent(o, v) ==
    Deny([o EXCEPT !.events = Append(@, "invalid_share_attempt")], 404)

\* handleShareKnock, the share is not valid: the security event for a
\* backend 404, then 404 to the client.
denyInvalidShare(o, v) ==
    LET o1 == IF v.status = 404
              THEN [o EXCEPT !.events = Append(@, "invalid_share_attempt")]
              ELSE o
    IN  Deny(o1, 404)

\* Mutant: the session policy of the service is not looked at.
grantSessionAlways(o, serviceProxy, serviceType, t) ==
    LET token == GenerateToken(CookieMaxAge, SigningKey, t)
    IN  [o EXCEPT !.generated = Append(@, token),
                  !.setCookie = Append(@, SessionCookie(token, serviceProxy))]

\* handleShareKnock, the share is valid: the token and the cookie of a
\* service with full access after knock.  GenerateToken returns an error only
\* when json.Marshal fails, which it cannot on two time.Time values in range,
\* so the 500 of lines 202-211 is never sent.
grantSession(o, serviceProxy, serviceType, t) ==
    IF serviceType.FullAccessAfterKnock
    THEN LET token == GenerateToken(CookieMaxAge, SigningKey, t)
         IN  [o EXCEPT !.generated = Append(@, token),
                       !.setCookie = Append(@, SessionCookie(token, serviceProxy)),
                       !.steps = @ \o <<"auth.GenerateToken", "http.SetCookie",
                                        "RecordActiveSession">>]
    ELSE o

\* Mutant: the request is forwarded first and the session is granted only
\* when the backend could be reached.
handleShareKnockForwardsFirst(o, r, serviceProxy, serviceType, t) ==
    LET sharePath == r.path
        v == ValidateShare(serviceProxy, sharePath, r.probe)
        o1 == [o EXCEPT !.validated = TRUE, !.probed = v.asked,
                        !.probe = IF v.asked THEN r.probe ELSE NoAnswer]
    IN  IF v.err
        THEN Deny(o1, 500)
        ELSE LET o2 == [o1 EXCEPT !.validations =
                           Append(@, [valid |-> v.valid, status |-> v.status])]
             IN  IF ~v.valid
                 THEN denyInvalidShare(o2, v)
                 ELSE LET o3 == Forward(o2, r.fwd)
                          o4 == IF r.fwd.err THEN o3
                                ELSE grantSession(o3, serviceProxy, serviceType, t)
                      IN  [o4 EXCEPT !.events = Append(@, "access_granted"),
                                     !.steps = Append(@, "access_granted")]

\* Handler.handleShareKnock, entered with the outcome so far.
handleShareKnock(o, r, serviceProxy, serviceType, t) ==
    LET sharePath == r.path
        v == ValidateShare(serviceProxy, sharePath, r.probe)
        o1 == [o EXCEPT !.validated = TRUE, !.probed = v.asked,
                        !.probe = IF v.asked THEN r.probe ELSE NoAnswer]
    IN  IF v.err
        THEN Deny(o1, 500)
        ELSE LET o2 == [o1 EXCEPT !.validations =
                           Append(@, [valid |-> v.valid, status |-> v.status])]
             IN  IF ~v.valid
                 THEN denyInvalidShare(o2, v)
                 ELSE LET o3 == grantSession(o2, serviceProxy, serviceType, t)
                          o4 == [o3 EXCEPT !.events = Append(@, "access_granted"),
                                           !.steps = Append(@, "access_granted")]
                      IN  Forward(o4, r.fwd)

\* Mutant: the token is checked whatever the session policy of the service.
checkTokenAnyService(r, serviceType, t) ==
    IF r.cookie # <<>>
    THEN IF ValidateToken(r.cookie[1], SigningKey, t).err = ""
         THEN "valid" ELSE "invalid"
    ELSE "unchecked"

\* Mutant: the result of ValidateToken is read the wrong way round.
checkTokenInverted(r, serviceType, t) ==
    IF serviceType.FullAccessAfterKnock /\ r.cookie # <<>>
    THEN IF ValidateToken(r.cookie[1], SigningKey, t).err # ""
         THEN "valid" ELSE "invalid"
    ELSE "unchecked"

\* Mutant: the token is honoured on the Nextcloud hostname only.
checkTokenOneService(r, serviceType, t) ==
    IF serviceType.FullAccessAfterKnock /\ r.cookie # <<>>
    THEN IF ValidateToken(r.cookie[1], SigningKey, t).err = "" /\ r.host = "cloud"
         THEN "valid" ELSE "invalid"
    ELSE "unchecked"

\* ServeHTTP, the token check: "valid" when the service grants sessions and
\* the request's sneak-link-token cookie passes ValidateToken, "invalid" when
\* it has the cookie and ValidateToken fails, "unchecked" otherwise.  r.cookie
\* is <<>> when the request has no such cookie, else <<value>>.
checkToken(r, serviceType, t) ==
    IF serviceType.FullAccessAfterKnock /\ r.cookie # <<>>
    THEN IF ValidateToken(r.cookie[1], SigningKey, t).err = ""
         THEN "valid" ELSE "invalid"
    ELSE "unchecked"

\* Mutant: the return after the 429 is missing, the knock goes on.
knockNoReturn(o, r, serviceProxy, serviceType, reqs, t) ==
    LET a == IsAllowed(reqs, r.clientIP, t)
        o1 == [o EXCEPT !.rlCalled = TRUE, !.allowed = a.allowed]
        o2 == IF ~a.allowed
              THEN Deny([o1 EXCEPT !.events = Append(@, "rate_limit_exceeded")], 429)
              ELSE o1
    IN  [out |-> handleShareKnock(o2, r, serviceProxy, serviceType, t),
         requests |-> a.requests]

\* Mutant: the limiter is asked per hostname.
knockKeyedByHostname(o, r, serviceProxy, serviceType, reqs, t) ==
    LET a == IsAllowed(reqs, r.host, t)
        o1 == [o EXCEPT !.rlCalled = TRUE, !.allowed = a.allowed]
    IN  IF ~a.allowed
        THEN [out |-> Deny([o1 EXCEPT !.events = Append(@, "rate_limit_exceeded")], 429),
              requests |-> a.requests]
        ELSE [out |-> handleShareKnock(o1, r, serviceProxy, serviceType, t),
              requests |-> a.requests]

\* ServeHTTP, the share path branch: the rate limiter, then the knock.
knock(o, r, serviceProxy, serviceType, reqs, t) ==
    LET a == IsAllowed(reqs, r.clientIP, t)
        o1 == [o EXCEPT !.rlCalled = TRUE, !.allowed = a.allowed]
    IN  IF ~a.allowed
        THEN [out |-> Deny([o1 EXCEPT !.events = Append(@, "rate_limit_exceeded")], 429),
              requests |-> a.requests]
        ELSE [out |-> handleShareKnock(o1, r, serviceProxy, serviceType, t),
              requests |-> a.requests]

\* Mutant: a request proxied on a valid token is counted by the limiter.
ServeHTTPCountsTokenRequests(r, reqs, t) ==
    LET found == GetProxy(r.host)
    IN  IF found = <<>>
        THEN [out |-> Deny(Outcome, 404), requests |-> reqs]
        ELSE
        LET serviceProxy == found[1]
            serviceName == serviceProxy.Type
        IN  IF serviceName \notin DOMAIN SupportedServices
            THEN [out |-> Deny(Outcome, 500), requests |-> reqs]
            ELSE
            LET serviceType == SupportedServices[serviceName]
                tok == checkToken(r, serviceType, t)
            IN  IF tok = "valid"
                THEN [out |-> Forward(Outcome, r.fwd),
                      requests |-> IsAllowed(reqs, r.clientIP, t).requests]
                ELSE
                LET o0 == IF tok = "invalid"
                          THEN [Outcome EXCEPT !.events = Append(@, "invalid_token")]
                          ELSE Outcome
                IN  IF isSharePath(r.path, serviceType)
                    THEN knock(o0, r, serviceProxy, serviceType, reqs, t)
                    ELSE [out |-> Deny(o0, 403), requests |-> reqs]

\* Mutant: a cookie that fails ValidateToken ends the request with 403.
ServeHTTPInvalidTokenDenied(r, reqs, t) ==
    LET found == GetProxy(r.host)
    IN  IF found = <<>>
        THEN [out |-> Deny(Outcome, 404), requests |-> reqs]
        ELSE
        LET serviceProxy == found[1]
            serviceName == serviceProxy.Type
        IN  IF serviceName \notin DOMAIN SupportedServices
            THEN [out |-> Deny(Outcome, 500), requests |-> reqs]
            ELSE
            LET serviceType == SupportedServices[serviceName]
                tok == checkToken(r, serviceType, t)
            IN  IF tok = "valid"
                THEN [out |-> Forward(Outcome, r.fwd), requests |-> reqs]
                ELSE IF tok = "invalid"
                THEN [out |-> Deny([Outcome EXCEPT !.events = Append(@, "invalid_token")], 403),
                      requests |-> reqs]
                ELSE IF isSharePath(r.path, serviceType)
                     THEN knock(Outcome, r, serviceProxy, serviceType, reqs, t)
                     ELSE [out |-> Deny(Outcome, 403), requests |-> reqs]

\* Mutant: a cookie that fails ValidateToken is passed over without an event.
ServeHTTPSilentInvalidToken(r, reqs, t) ==
    LET found == GetProxy(r.host)
    IN  IF found = <<>>
        THEN [out |-> Deny(Outcome, 404), requests |-> reqs]
        ELSE
        LET serviceProxy == found[1]
            serviceName == serviceProxy.Type
        IN  IF serviceName \notin DOMAIN SupportedServices
            THEN [out |-> Deny(Outcome, 500), requests |-> reqs]
            ELSE
            LET serviceType == SupportedServices[serviceName]
                tok == checkToken(r, serviceType, t)
            IN  IF tok = "valid"
                THEN [out |-> Forward(Outcome, r.fwd), requests |-> reqs]
                ELSE IF isSharePath(r.path, serviceType)
                     THEN knock(Outcome, r, serviceProxy, serviceType, reqs, t)
                     ELSE [out |-> Deny(Outcome, 403), requests |-> reqs]

\* Handler.ServeHTTP at time t on limiter map reqs: the outcome and the
\* limiter map it leaves behind.
ServeHTTP(r, reqs, t) ==
    LET found == GetProxy(r.host)
    IN  IF found = <<>>
        THEN [out |-> Deny(Outcome, 404), requests |-> reqs]
        ELSE
        LET serviceProxy == found[1]
            serviceName == serviceProxy.Type
        IN  IF serviceName \notin DOMAIN SupportedServices
            THEN [out |-> Deny(Outcome, 500), requests |-> reqs]
            ELSE
            LET serviceType == SupportedServices[serviceName]
                tok == checkToken(r, serviceType, t)
            IN  IF tok = "valid"
                THEN [out |-> Forward(Outcome, r.fwd), requests |-> reqs]
                ELSE
                LET o0 == IF tok = "invalid"
                          THEN [Outcome EXCEPT !.events = Append(@, "invalid_token")]
                          ELSE Outcome
                IN  IF isSharePath(r.path, serviceType)
                    THEN knock(o0, r, serviceProxy, serviceType, reqs, t)
                    ELSE [out |-> Deny(o0, 403), requests |-> reqs]

\* ---------------------------------------------------------------- actions
\* The requests clients send.
Hostnames == (DOMAIN Services) \cup {"other"}

Paths ==
    { <<"/", "s", "/", "A">>,
      <<"/", "s", "h", "a", "r", "e", "/", "X">>,
      <<"/", "s", "h", "a", "r", "e", "/">>,
      <<"/", "a">> }

\* The cookie values a client can present at time t: a token the gateway
\* issued, a token signed with a key of the client's own, or text that is
\* no token.
CookieValues(t) ==
    issued \cup {GenerateToken(CookieMaxAge, OtherKey, t), <<JunkWord>>}

ProbeAnswers == {TransportError, Answer(200), Answer(404), Answer(401), Answer(500)}
FwdAnswers == {TransportError, Answer(200), Answer(404)}

NoCall ==
    [op |-> "none"]

NoRequest ==
    [handled |-> FALSE]

Init ==
    /\ now = 0
    /\ requests = <<>>
    /\ issued = {}
    /\ last = NoRequest
    /\ callLog = [ip \in ClientIPs |-> <<>>]
    /\ call = NoCall
    /\ proc = Serving
    /\ gor = [g \in Goroutines |-> Idle]
    /\ mutex = {}

\* The clock advances.  A handler run is one instant: while `last` holds a
\* request neither the clock nor the cleanup goroutine moves, so that `now`
\* is the instant the request was served.
Tick ==
    /\ last = NoRequest
    /\ now < MaxTime
    /\ now' = now + 1
    /\ UNCHANGED <<requests, issued, last, callLog, call, proc, gor, mutex>>

\* The cleanup goroutine runs one pass.
cleanup ==
    /\ last = NoRequest
    /\ requests' = CleanupPass(requests, now)
    /\ UNCHANGED <<now, issued, last, callLog, call, proc, gor, mutex>>

\* Longest call history kept per identity in SpecLimiter.
MaxCalls == maxReqs + 3

\* A direct call rl.IsAllowed(ip), as a request goroutine makes it under the
\* limiter's mutex.
IsAllowedCall(ip) ==
    LET r == IsAllowed(requests, ip, now)
        counted == ValidRequests(requests, ip, now)
    IN  /\ Len(callLog[ip]) < MaxCalls
        /\ requests' = r.requests
        /\ callLog' = [callLog EXCEPT ![ip] =
                          Append(@, [t |-> now, ok |-> r.allowed, counted |-> counted])]
        /\ UNCHANGED <<now, issued, last, call, proc, gor, mutex>>

\* The backend answers only the calls the handler makes: the probe when the
\* handler validates the share, the forwarded request when it proxies.
Request0(host, path, cookie, clientIP) ==
    [host |-> host, path |-> path, cookie |-> cookie, clientIP |-> clientIP,
     probe |-> NoAnswer, fwd |-> NoAnswer]

ProbesAsked(r0) ==
    IF ServeHTTP(r0, requests, now).out.probed THEN ProbeAnswers ELSE {NoAnswer}

FwdsAsked(r1) ==
    IF ServeHTTP(r1, requests, now).out.forwarded THEN FwdAnswers ELSE {NoAnswer}

\* One request is served from start to end at the instant `now`.
Request(r) ==
    LET res == ServeHTTP(r, requests, now)
    IN  /\ requests' = res.requests
        /\ issued' = issued \cup {res.out.generated[i] : i \in 1..Len(res.out.generated)}
        /\ last' = [handled |-> TRUE, host |-> r.host, path |-> r.path,
                    cookie |-> r.cookie, clientIP |-> r.clientIP, out |-> res.out]
        /\ UNCHANGED <<now, callLog, call, proc, gor, mutex>>

\* The handler has returned: the request and its response leave the gateway.
Return ==
    /\ last # NoRequest
    /\ last' = NoRequest
    /\ UNCHANGED <<now, requests, issued, callLog, call, proc, gor, mutex>>

\* Some client among ips sends a request for one of hosts and paths, and the
\* handler serves it.
Serve(hosts, paths, ips) ==
    /\ last = NoRequest
    /\ \E host \in hosts, path \in paths, clientIP \in ips,
          cookie \in {<<>>} \cup {<<c>> : c \in CookieValues(now)} :
         \E probe \in ProbesAsked(Request0(host, path, cookie, clientIP)) :
           \E fwd \in FwdsAsked([Request0(host, path, cookie, clientIP)
                                   EXCEPT !.probe = probe]) :
             Request([Request0(host, path, cookie, clientIP)
                        EXCEPT !.probe = probe, !.fwd = fwd])

\* The gateway serving the requests of one client identity; several
\* identities meet in the limiter in SpecLimiter.
Next ==
    \/ Tick
    \/ cleanup
    \/ Return
    \/ Serve(Hostnames, Paths, {"ip1"})

Spec == Init /\ [][Next]_vars

\* The rate limiter alone, called by the request goroutines of several
\* identities and swept by its cleanup goroutine.
NextLimiter ==
    \/ Tick
    \/ cleanup
    \/ \E ip \in ClientIPs : IsAllowedCall(ip)

SpecLimiter == Init /\ [][NextLimiter]_vars

\* The rate limiter called by the request goroutines of one identity: the
\* window of that identity over its whole call history.
NextOneClient ==
    \/ Tick
    \/ cleanup
    \/ IsAllowedCall("ip1")

SpecOneClient == Init /\ [][NextOneClient]_vars

\* The rate limiter with its cleanup goroutine kept running: the ticker
\* fires every window and the clock moves on.  Calls are made only while a
\* whole window of model time is still to come, so that every recorded
\* request can be seen to leave the window.
lateCall(ip) ==
    /\ now + window <= MaxTime
    /\ IsAllowedCall(ip)

NextCleanup ==
    \/ Tick
    \/ cleanup
    \/ \E ip \in ClientIPs : lateCall(ip)

SpecCleanup ==
    /\ Init
    /\ [][NextCleanup]_vars
    /\ WF_vars(Tick)
    /\ WF_vars(cleanup)

\* ------------------------------------------ knocks on several hostnames
\* One identity knocks on share paths of the configured hostnames; the call
\* log keeps, for every knock that reached the limiter, the instant, the
\* hostname, the limiter's answer and the entries it counted.
SharePathsKnocked ==
    { <<"/", "s", "/", "A">>,
      <<"/", "s", "h", "a", "r", "e", "/", "X">> }

\* Longest knock history in SpecKnocks: enough to fill the window and have
\* the next knock refused.
MaxKnocks == maxReqs + 1

knockLogged(r) ==
    LET res == ServeHTTP(r, requests, now)
        entry == [t |-> now, ok |-> res.out.allowed,
                  counted |-> ValidRequests(requests, r.clientIP, now),
                  host |-> r.host]
    IN  /\ last = NoRequest
        /\ Len(callLog[r.clientIP]) < MaxKnocks
        /\ res.out.rlCalled
        /\ requests' = res.requests
        /\ issued' = issued \cup {res.out.generated[i] : i \in 1..Len(res.out.generated)}
        /\ last' = [handled |-> TRUE, host |-> r.host, path |-> r.path,
                    cookie |-> r.cookie, clientIP |-> r.clientIP, out |-> res.out]
        /\ callLog' = [callLog EXCEPT ![r.clientIP] = Append(@, entry)]
        /\ UNCHANGED <<now, call, proc, gor, mutex>>

\* The paths of the requests that carry a token: one under a share prefix
\* and one under none.
PathsPresented ==
    { <<"/", "s", "/", "A">>, <<"/", "a">> }

\* The identity sends a request with a token the gateway has issued, and
\* the handler serves it without reaching the limiter.
presentToken(host, path, token) ==
    LET r == [Request0(host, path, <<token>>, "ip1") EXCEPT !.fwd = Answer(200)]
    IN  /\ last = NoRequest
        /\ ~ServeHTTP(r, requests, now).out.rlCalled
        /\ Request(r)

NextKnocks ==
    \/ Tick
    \/ cleanup
    \/ Return
    \/ \E host \in DOMAIN Services, path \in SharePathsKnocked,
          probe \in {Answer(200), Answer(404)} :
         knockLogged([Request0(host, path, <<>>, "ip1")
                        EXCEPT !.probe = probe, !.fwd = Answer(200)])

SpecKnocks == Init /\ [][NextKnocks]_vars

\* The identity knocks on the hostnames that grant sessions and presents the
\* tokens it got on every configured hostname.
NextSessions ==
    \/ Tick
    \/ cleanup
    \/ Return
    \/ \E host \in {"cloud", "photos"}, path \in SharePathsKnocked :
         knockLogged([Request0(host, path, <<>>, "ip1")
                        EXCEPT !.probe = Answer(200), !.fwd = Answer(200)])
    \/ \E host \in DOMAIN Services, path \in PathsPresented, token \in issued :
         presentToken(host, path, token)

SpecSessions == Init /\ [][NextSessions]_vars

\* ------------------------------------------ the client identity of a request
\* Header values and addresses are sequences of one-character strings.

\* strings.Split(s, sep) for a one-character separator.
RECURSIVE splitOn(_, _, _, _)
splitOn(s, sep, parts, current) ==
    IF s = <<>> THEN Append(parts, current)
    ELSE IF Head(s) = sep
         THEN splitOn(Tail(s), sep, Append(parts, current), <<>>)
         ELSE splitOn(Tail(s), sep, parts, Append(current, Head(s)))

Split(s, sep) == splitOn(s, sep, <<>>, <<>>)

\* strings.Trim(s, cutset): leading and trailing characters of cutset go.
RECURSIVE TrimLeft(_, _)
TrimLeft(s, cutset) ==
    IF s # <<>> /\ Head(s) \in cutset THEN TrimLeft(Tail(s), cutset) ELSE s

RECURSIVE TrimRight(_, _)
TrimRight(s, cutset) ==
    IF s # <<>> /\ s[Len(s)] \in cutset
    THEN TrimRight(SubSeq(s, 1, Len(s) - 1), cutset) ELSE s

Trim(s, cutset) == TrimRight(TrimLeft(s, cutset), cutset)

\* strings.TrimSpace
TrimSpace(s) == Trim(s, {" "})

\* strings.LastIndex for a one-character needle: 0-based index, -1 when absent.
LastIndex(s, c) ==
    IF \E i \in 1..Len(s) : s[i] = c
    THEN (CHOOSE i \in 1..Len(s) : s[i] = c /\ \A j \in (i + 1)..Len(s) : s[j] # c) - 1
    ELSE -1

\* Mutant: the address of the connection comes first, the headers after it.
getClientIPFromConnection(xff, xri, remoteAddr) ==
    LET colon == LastIndex(remoteAddr, ":")
        ip == IF colon # -1 THEN SubSeq(remoteAddr, 1, colon) ELSE remoteAddr
    IN  Trim(ip, {"[", "]"})

\* handlers.getClientIP, from the X-Forwarded-For header, the X-Real-IP
\* header and r.RemoteAddr (a missing header is the empty string).
getClientIP(xff, xri, remoteAddr) ==
    IF xff # <<>>
    THEN TrimSpace(Split(xff, ",")[1])
    ELSE IF xri # <<>>
    THEN TrimSpace(xri)
    ELSE LET colon == LastIndex(remoteAddr, ":")
             ip == IF colon # -1 THEN SubSeq(remoteAddr, 1, colon) ELSE remoteAddr
         IN  Trim(ip, {"[", "]"})

\* What clients put in the headers, and the addresses of their connections.
ForwardedFors ==
    { <<>>, <<" ", "c">>, <<"c", ",", "d">>, <<"d", ",", " ", "c">> }

RealIPs == { <<>>, <<"b">> }

RemoteAddrs == { <<"[", "a", "]", ":", "1">> }

\* The number of timestamps the limiter map holds for the identities in keys.
RECURSIVE Recorded(_, _)
Recorded(reqs, keys) ==
    IF keys = {} THEN 0
    ELSE LET k == CHOOSE x \in keys : TRUE
         IN  Len(reqs[k]) + Recorded(reqs, keys \ {k})

\* Most timestamps in the map in SpecClientIP: enough to fill the window of
\* one identity and admit another.
MaxRecorded == maxReqs + 1

\* A knock on the Nextcloud hostname arrives with these headers over this
\* connection; the backend answers the probe and the forwarded request 200.
knockFrom(xff, xri, remoteAddr) ==
    LET r == [Request0("cloud", <<"/", "s", "/", "A">>, <<>>,
                       getClientIP(xff, xri, remoteAddr))
                EXCEPT !.probe = Answer(200), !.fwd = Answer(200)]
        res == ServeHTTP(r, requests, now)
    IN  /\ last = NoRequest
        /\ Recorded(res.requests, DOMAIN res.requests) <= MaxRecorded
        /\ requests' = res.requests
        /\ issued' = issued \cup {res.out.generated[i] : i \in 1..Len(res.out.generated)}
        /\ last' = [handled |-> TRUE, host |-> r.host, path |-> r.path,
                    cookie |-> r.cookie, clientIP |-> r.clientIP, out |-> res.out,
                    xff |-> xff, xri |-> xri, remoteAddr |-> remoteAddr]
        /\ UNCHANGED <<now, callLog, call, proc, gor, mutex>>

NextClientIP ==
    \/ Tick
    \/ cleanup
    \/ Return
    \/ \E xff \in ForwardedFors, xri \in RealIPs, remoteAddr \in RemoteAddrs :
         knockFrom(xff, xri, remoteAddr)

SpecClientIP == Init /\ [][NextClientIP]_vars

\* ------------------------------------------ the share knock, step by step
\* The handler's goroutine blocks in http.Head until the backend has
\* answered: http.Head uses http.DefaultClient, whose Timeout is zero (no
\* timeout), and the handler sets none.  While the handler waits, `last`
\* holds the request with handled = FALSE.

\* The outcome so far when handleShareKnock is entered by a request without
\* a cookie: the limiter was consulted and admitted the request.
Admitted ==
    [Outcome EXCEPT !.rlCalled = TRUE, !.allowed = TRUE]

\* A handler is blocked in http.Head.
Probing ==
    /\ last # NoRequest
    /\ ~last.handled

\* ServeHTTP up to the http.Head call of the validation: the request passes
\* the limiter and the probe is sent to the backend.
headSend(host, path, clientIP) ==
    LET r0 == Request0(host, path, <<>>, clientIP)
        res == ServeHTTP(r0, requests, now)
    IN  /\ last = NoRequest
        /\ res.out.probed
        /\ requests' = res.requests
        /\ last' = [handled |-> FALSE, host |-> host, path |-> path,
                    cookie |-> <<>>, clientIP |-> clientIP,
                    answered |-> FALSE, probe |-> NoAnswer, out |-> Admitted]
        /\ UNCHANGED <<now, issued, callLog, call, proc, gor, mutex>>

\* The backend answers the probe, or the connection fails: the only events
\* that end http.Head.  The backend is free never to do so.
backendAnswers ==
    /\ Probing
    /\ ~last.answered
    /\ \E answer \in ProbeAnswers :
         last' = [last EXCEPT !.answered = TRUE, !.probe = answer]
    /\ UNCHANGED <<now, requests, issued, callLog, call, proc, gor, mutex>>

\* http.Head returns and handleShareKnock runs to its end at the instant now.
headReturn ==
    /\ Probing
    /\ last.answered
    /\ LET r1 == [Request0(last.host, last.path, last.cookie, last.clientIP)
                    EXCEPT !.probe = last.probe]
           serviceProxy == GetProxy(last.host)[1]
           serviceType == SupportedServices[serviceProxy.Type]
           fwds == IF handleShareKnock(Admitted, r1, serviceProxy, serviceType, now).forwarded
                   THEN FwdAnswers ELSE {NoAnswer}
       IN  \E fwd \in fwds :
             LET out == handleShareKnock(Admitted, [r1 EXCEPT !.fwd = fwd],
                                         serviceProxy, serviceType, now)
             IN  /\ issued' = issued \cup {out.generated[i] : i \in 1..Len(out.generated)}
                 /\ last' = [handled |-> TRUE, host |-> last.host, path |-> last.path,
                             cookie |-> last.cookie, clientIP |-> last.clientIP,
                             out |-> out]
    /\ UNCHANGED <<now, requests, callLog, call, proc, gor, mutex>>

\* Time passes, whether or not a handler is waiting.
Elapse ==
    /\ now < MaxTime
    /\ now' = now + 1
    /\ UNCHANGED <<requests, issued, last, callLog, call, proc, gor, mutex>>

\* The handler returns once it has written its response.
handlerReturn ==
    /\ last.handled
    /\ Return

NextProbe ==
    \/ Elapse
    \/ \E host \in Hostnames, path \in Paths : headSend(host, path, "ip1")
    \/ backendAnswers
    \/ headReturn
    \/ handlerReturn

\* The handler's goroutine is scheduled: once http.Head has returned the
\* handler runs on, and a finished handler returns.  Nothing obliges the
\* backend to answer.
SpecProbe ==
    /\ Init
    /\ [][NextProbe]_vars
    /\ WF_vars(headReturn)
    /\ WF_vars(handlerReturn)

\* ------------------------------------------ the limiter, step by step
\* Longest call history per identity in SpecConcurrent: enough to fill the
\* window and be refused.
MaxConcurrentCalls == maxReqs + 1

\* IsAllowed line 31: the goroutine g, called with ip, gets the mutex.
rlLock(g, ip) ==
    /\ gor[g].pc = "idle"
    /\ Len(callLog[ip]) < MaxConcurrentCalls
    /\ Lock(mutex)
    /\ mutex' = mutex \cup {g}
    /\ gor' = [gor EXCEPT ![g] = [Idle EXCEPT !.pc = "locked", !.ip = ip]]
    /\ UNCHANGED <<now, requests, issued, last, callLog, call, proc>>

\* IsAllowed lines 34-46: now := time.Now(), and the entries of the map that
\* are still in the window go to the local slice validRequests.
rlPrune(g) ==
    /\ gor[g].pc = "locked"
    /\ gor' = [gor EXCEPT ![g] = [@ EXCEPT !.pc = "pruned", !.now = now,
                    !.validRequests = ValidRequests(requests, gor[g].ip, now)]]
    /\ UNCHANGED <<now, requests, issued, last, callLog, call, proc, mutex>>

\* IsAllowed lines 49-59 and the deferred Unlock: the limit is tested on the
\* local slice, the slice (with `now` appended when admitted) is stored in
\* the map, the answer is returned and the mutex released.
rlDecide(g) ==
    /\ gor[g].pc = "pruned"
    /\ LET l == gor[g]
           r == IsAllowed(MapPut(requests, l.ip, l.validRequests), l.ip, l.now)
       IN  /\ requests' = r.requests
           /\ callLog' = [callLog EXCEPT ![l.ip] =
                             Append(@, [t |-> l.now, ok |-> r.allowed,
                                        counted |-> l.validRequests])]
    /\ gor' = [gor EXCEPT ![g] = Idle]
    /\ mutex' = mutex \ {g}
    /\ UNCHANGED <<now, issued, last, call, proc>>

\* cleanup line 88: the cleanup goroutine gets the mutex on a tick.
cleanupLock ==
    /\ gor[CleanupGoroutine].pc = "idle"
    /\ Lock(mutex)
    /\ mutex' = mutex \cup {CleanupGoroutine}
    /\ gor' = [gor EXCEPT ![CleanupGoroutine] = [Idle EXCEPT !.pc = "locked"]]
    /\ UNCHANGED <<now, requests, issued, last, callLog, call, proc>>

\* cleanup lines 89-106: the pass over the map, then Unlock.
cleanupSweep ==
    /\ gor[CleanupGoroutine].pc = "locked"
    /\ requests' = CleanupPass(requests, now)
    /\ gor' = [gor EXCEPT ![CleanupGoroutine] = Idle]
    /\ mutex' = mutex \ {CleanupGoroutine}
    /\ UNCHANGED <<now, issued, last, callLog, call, proc>>

\* The goroutines of the limiter interleaved step by step while the clock
\* runs.
NextConcurrent ==
    \/ Tick
    \/ \E g \in RequestGoroutines, ip \in ClientIPs : rlLock(g, ip)
    \/ \E g \in RequestGoroutines : rlPrune(g)
    \/ \E g \in RequestGoroutines : rlDecide(g)
    \/ cleanupLock
    \/ cleanupSweep

SpecConcurrent == Init /\ [][NextConcurrent]_vars

\* ------------------------------------------------------------------ main
InitMain ==
    /\ now = 0
    /\ requests = <<>>
    /\ issued = {}
    /\ last = NoRequest
    /\ callLog = [ip \in ClientIPs |-> <<>>]
    /\ call = NoCall
    /\ gor = [g \in Goroutines |-> Idle]
    /\ mutex = {}
    /\ \E env \in Environments : proc = Started(env)

\* main: config.Load, and os.Exit(1) when it fails.
mainLoad ==
    /\ proc.pc = "start"
    /\ LET res == Load(proc.env)
       IN  proc' = IF res.err # ""
                   THEN [proc EXCEPT !.pc = "exit(1)", !.err = res.err]
                   ELSE [proc EXCEPT !.pc = "loaded", !.cfg = res.cfg]
    /\ UNCHANGED <<now, requests, issued, last, callLog, call, gor, mutex>>

\* main: ratelimit.NewRateLimiter, which starts the cleanup goroutine.
mainNewRateLimiter ==
    /\ proc.pc = "loaded"
    /\ proc' = [proc EXCEPT !.pc = "created", !.limiter = TRUE]
    /\ UNCHANGED <<now, requests, issued, last, callLog, call, gor, mutex>>

\* The cleanup goroutine begins: time.NewTicker(rl.window) panics for a
\* window that is not positive, and the panic ends the process.
cleanupNewTicker ==
    /\ proc.pc \in {"created", "serving"}
    /\ proc.limiter /\ ~proc.ticker
    /\ proc' = IF proc.cfg[1].RateLimitWindow <= 0
               THEN [proc EXCEPT !.pc = "panic"]
               ELSE [proc EXCEPT !.ticker = TRUE]
    /\ UNCHANGED <<now, requests, issued, last, callLog, call, gor, mutex>>

\* main: the goroutine of server.ListenAndServe has the listener.
mainListenAndServe ==
    /\ proc.pc = "created"
    /\ proc' = [proc EXCEPT !.pc = "serving", !.listener = TRUE]
    /\ UNCHANGED <<now, requests, issued, last, callLog, call, gor, mutex>>

\* The server accepts a request: its handler runs in a goroutine of its own.
serverAccept ==
    /\ proc.pc = "serving"
    /\ proc.inflight < MaxInFlight
    /\ proc' = [proc EXCEPT !.inflight = @ + 1]
    /\ UNCHANGED <<now, requests, issued, last, callLog, call, gor, mutex>>

\* A handler returns: its request has its response.
serverFinish ==
    /\ proc.pc = "serving"
    /\ proc.inflight > 0
    /\ proc' = [proc EXCEPT !.inflight = @ - 1]
    /\ UNCHANGED <<now, requests, issued, last, callLog, call, gor, mutex>>

\* SIGINT or SIGTERM arrives: main falls out of <-quit, logs and returns, and
\* the process ends with whatever its goroutines were doing.
mainQuit ==
    /\ proc.pc = "serving"
    /\ proc' = [proc EXCEPT !.pc = "exited", !.listener = FALSE]
    /\ UNCHANGED <<now, requests, issued, last, callLog, call, gor, mutex>>

NextMain ==
    \/ mainLoad
    \/ mainNewRateLimiter
    \/ cleanupNewTicker
    \/ mainListenAndServe
    \/ serverAccept
    \/ serverFinish
    \/ mainQuit

SpecMain == InitMain /\ [][NextMain]_vars

\* ----------------------------------------- direct calls of auth and proxy
\* The signing keys and lifetimes GenerateToken is called with.
Keys == {SigningKey, OtherKey}
MaxAges == (0 - 1)..(CookieMaxAge + 1)

\* auth.GenerateToken(maxAge, signingKey) is called at the instant `now`.
GenerateTokenCall(maxAge, signingKey) ==
    /\ call' = [op |-> "GenerateToken", maxAge |-> maxAge,
                signingKey |-> signingKey, at |-> now,
                token |-> GenerateToken(maxAge, signingKey, now)]
    /\ UNCHANGED <<now, requests, issued, last, callLog, proc, gor, mutex>>

\* The GenerateToken call that made the token `call` is about.
Generation == IF call.op = "GenerateToken" THEN call ELSE call.from

\* auth.ValidateToken(token, signingKey) is called at the instant `now` on the
\* token of the latest GenerateToken call.
ValidateTokenCall(signingKey) ==
    /\ call # NoCall
    /\ call' = [op |-> "ValidateToken", from |-> Generation,
                signingKey |-> signingKey, at |-> now,
                result |-> ValidateToken(Generation.token, signingKey, now)]
    /\ UNCHANGED <<now, requests, issued, last, callLog, proc, gor, mutex>>

\* What a client can make of a token <<claims, Dot, signature>> it holds
\* without the key: separators added or removed, a part appended, the claims
\* replaced under the old signature.
Alterations ==
    {"trailing dot", "leading dot", "double dot", "no dot", "two trailing dots",
     "extra part", "later expiry", "junk claims"}

Alter(token, alteration) ==
    CASE alteration = "trailing dot" -> token \o <<Dot>>
      [] alteration = "leading dot" -> <<Dot>> \o token
      [] alteration = "double dot" -> <<token[1], Dot, Dot, token[3]>>
      [] alteration = "no dot" -> <<token[1], token[3]>>
      [] alteration = "two trailing dots" -> token \o <<Dot, Dot>>
      [] alteration = "extra part" -> token \o <<Dot, JunkWord>>
      [] alteration = "later expiry" ->
            <<ClaimsWord(token[1].iat, token[1].exp + 1), Dot, token[3]>>
      [] alteration = "junk claims" -> <<JunkWord, Dot, token[3]>>

\* auth.ValidateToken(token, signingKey) is called at the instant `now` on an
\* altered copy of the token of the latest GenerateToken call.
ValidateAlteredCall(alteration, signingKey) ==
    /\ call # NoCall
    /\ call' = [op |-> "ValidateAltered", from |-> Generation,
                alteration |-> alteration,
                token |-> Alter(Generation.token, alteration),
                signingKey |-> signingKey, at |-> now,
                result |-> ValidateToken(Alter(Generation.token, alteration),
                                         signingKey, now)]
    /\ UNCHANGED <<now, requests, issued, last, callLog, proc, gor, mutex>>

\* Tokens are generated and validated, as issued or altered, under either key
\* while the clock runs.
NextToken ==
    \/ Tick
    \/ \E maxAge \in MaxAges, signingKey \in Keys : GenerateTokenCall(maxAge, signingKey)
    \/ \E signingKey \in Keys : ValidateTokenCall(signingKey)
    \/ \E alteration \in Alterations, signingKey \in Keys :
          ValidateAlteredCall(alteration, signingKey)

SpecToken == Init /\ [][NextToken]_vars

\* The sequences over S of length at most n.
Seqs(S, n) == UNION {[1..k -> S] : k \in 0..n}

\* The share paths extractShareKey is called with: a lead (a share prefix of
\* some service, a share prefix cut short, or nothing), a key, and a tail
\* (nothing, or a separator and a rest).
KeyChars == {"k", "X"}
RestChars == {"a", "/", "?"}
SharePrefixes ==
    UNION {{SupportedServices[s].SharePaths[i] :
               i \in 1..Len(SupportedServices[s].SharePaths)} :
           s \in DOMAIN SupportedServices}
ShareKeys == Seqs(KeyChars, MaxKeyLen)
ShareTails ==
    {<<>>} \cup {<<sep>> \o rest : sep \in {"/", "?"}, rest \in Seqs(RestChars, MaxRestLen)}
ShareLeads ==
    SharePrefixes \cup {<<>>} \cup {SubSeq(p, 1, Len(p) - 1) : p \in SharePrefixes}
SharePathInputs ==
    {lead \o key \o tail : lead \in ShareLeads, key \in ShareKeys, tail \in ShareTails}

\* proxy.extractShareKey(sharePath, prefix) is called.
ExtractShareKeyCall(sharePath, prefix) ==
    /\ call = NoCall
    /\ call' = [op |-> "extractShareKey", sharePath |-> sharePath,
                prefix |-> prefix, result |-> extractShareKey(sharePath, prefix)]
    /\ UNCHANGED <<now, requests, issued, last, callLog, proc, gor, mutex>>

\* The call has returned to its caller.
CallReturn ==
    /\ call # NoCall
    /\ call' = NoCall
    /\ UNCHANGED <<now, requests, issued, last, callLog, proc, gor, mutex>>

NextShareKey ==
    \/ \E sharePath \in SharePathInputs, prefix \in SharePrefixes :
          ExtractShareKeyCall(sharePath, prefix)
    \/ CallReturn

SpecShareKey == Init /\ [][NextShareKey]_vars

\* ================================================================= claims
\* What the claims say of the request held in `last`.  While `last` holds a
\* request the clock stands at the instant the request was served.
Configured(host) == host \in DOMAIN Services

ServiceTypeOf(host) == SupportedServices[Services[host].Type]

GrantsSession(host) == Configured(host) /\ ServiceTypeOf(host).FullAccessAfterKnock

\* The request carries a cookie that ValidateToken accepts now.
CarriesValidToken ==
    /\ last.cookie # <<>>
    /\ ValidateToken(last.cookie[1], SigningKey, now).err = ""

\* The path starts with one of the service's share prefixes.
OnSharePath(host) ==
    LET prefixes == ServiceTypeOf(host).SharePaths
    IN  \E i \in 1..Len(prefixes) :
           /\ Len(last.path) >= Len(prefixes[i])
           /\ \A j \in 1..Len(prefixes[i]) : last.path[j] = prefixes[i][j]

\* The token is a claims word, the separator, and the HMAC of that claims
\* word under the key.
SignedWith(token, key) ==
    /\ Len(token) = 3
    /\ token[1].kind = "claims"
    /\ token[2] = [kind |-> "dot"]
    /\ token[3] = [kind |-> "hmac", key |-> key, text |-> <<token[1]>>]

\* C1: a knock on a session-granting service that has no valid token, is on a
\* share path, is admitted by the rate limiter and whose probe is answered
\* 200 issues one token signed with the configured key, sets the
\* sneak-link-token cookie with that token and Domain = the hostname of the
\* backend's URL, and forwards the request.
C1_KnockGrantsSession ==
    (/\ last.handled
     /\ GrantsSession(last.host)
     /\ ~CarriesValidToken
     /\ OnSharePath(last.host)
     /\ last.out.allowed
     /\ last.out.probe = [err |-> FALSE, status |-> 200])
    => (/\ Len(last.out.generated) = 1
        /\ SignedWith(last.out.generated[1], SigningKey)
        /\ Len(last.out.setCookie) = 1
        /\ last.out.setCookie[1].Name = "sneak-link-token"
        /\ last.out.setCookie[1].Value = last.out.generated[1]
        /\ last.out.setCookie[1].Domain = ServiceURLs[Services[last.host].Type].Hostname
        /\ last.out.forwarded)

C1_Witness ==
    /\ last.handled
    /\ last.host = "photos"
    /\ last.cookie # <<>>
    /\ ~CarriesValidToken
    /\ last.out.allowed
    /\ last.out.probe = [err |-> FALSE, status |-> 200]
    /\ Len(last.out.setCookie) = 1
    /\ last.out.forwarded
    /\ last.out.status = 200

\* C2 as stated: on every configured hostname, whatever the session policy,
\* a request whose cookie passes ValidateToken is forwarded without the rate
\* limiter and without validation.
C2_Original ==
    (last.handled /\ Configured(last.host) /\ CarriesValidToken)
    => (last.out.forwarded /\ ~last.out.rlCalled /\ ~last.out.validated)

\* C2 (amended): on every hostname whose service has
\* FullAccessAfterKnock = true, for every path, a request whose session cookie
\* passes ValidateToken is forwarded at once: the rate limiter is not
\* consulted, the validation strategy is not run, no token is issued.
C2_TokenBypass ==
    (last.handled /\ GrantsSession(last.host) /\ CarriesValidToken)
    => (/\ last.out.forwarded
        /\ ~last.out.rlCalled
        /\ ~last.out.validated
        /\ ~last.out.probed
        /\ last.out.generated = <<>>
        /\ last.out.events = <<>>
        /\ last.out.status = ProxyStatus(last.out.fwd))

C2_Witness ==
    /\ last.handled
    /\ last.host = "cloud"
    /\ CarriesValidToken
    /\ ~OnSharePath(last.host)
    /\ last.out.forwarded
    /\ ~last.out.rlCalled

\* C3: a token issued after a knock is accepted on a session-granting
\* hostname (the knocked one included) at every instant up to and including
\* its expiresAt; a request carrying it is forwarded whatever the backend now
\* answers, and no validation probe is sent for it.
C3_NoRevocation ==
    (/\ last.handled
     /\ GrantsSession(last.host)
     /\ last.cookie # <<>>
     /\ last.cookie[1] \in issued
     /\ now <= last.cookie[1][1].exp)
    => (last.out.forwarded /\ ~last.out.validated /\ ~last.out.probed)

\* An issued token is presented at its expiresAt, after the instant of issue,
\* on a share path, and the backend answers the forwarded request 404.
C3_Witness ==
    /\ last.handled
    /\ last.host = "cloud"
    /\ last.cookie # <<>>
    /\ last.cookie[1] \in issued
    /\ now = last.cookie[1][1].exp
    /\ now > last.cookie[1][1].iat
    /\ OnSharePath(last.host)
    /\ last.out.forwarded
    /\ last.out.fwd = [err |-> FALSE, status |-> 404]
    /\ ~last.out.probed

\* C4: a request that the rate limiter refuses is answered 429; the
\* validation strategy is not invoked for it, no token is issued, no cookie is
\* set and nothing is forwarded.  (Only share-path requests without a valid
\* token reach the limiter.)
C4_RateLimited ==
    (last.handled /\ last.out.rlCalled /\ ~last.out.allowed)
    => (/\ last.out.status = 429
        /\ ~last.out.validated
        /\ ~last.out.probed
        /\ last.out.validations = <<>>
        /\ last.out.generated = <<>>
        /\ last.out.setCookie = <<>>
        /\ ~last.out.forwarded
        /\ Configured(last.host) /\ OnSharePath(last.host)
        /\ ~(GrantsSession(last.host) /\ CarriesValidToken))

C4_Witness ==
    /\ last.handled
    /\ last.out.rlCalled
    /\ ~last.out.allowed
    /\ last.out.status = 429
    /\ Len(MapGet(requests, last.clientIP)) = maxReqs

\* C5: for an identity that starts with no recorded requests, the first
\* maxReqs calls of IsAllowed made less than one window after the first all
\* return true, and call number maxReqs + 1, when made less than one window
\* after the first, returns false (cleanup passes may run in between).
C5_BurstThenRefuse ==
    \A ip \in ClientIPs :
      LET log == callLog[ip]
      IN  /\ \A i \in 1..Len(log) :
               (i <= maxReqs /\ log[i].t - log[1].t < window) => log[i].ok
          /\ (Len(log) >= maxReqs + 1 /\ log[maxReqs + 1].t - log[1].t < window)
               => ~log[maxReqs + 1].ok

\* The burst is spread over more than one instant and call maxReqs + 1 is
\* refused.
C5_Witness ==
    \E ip \in ClientIPs :
      LET log == callLog[ip]
      IN  /\ Len(log) >= maxReqs + 1
          /\ log[2].t > log[1].t
          /\ log[maxReqs + 1].t > log[2].t
          /\ log[maxReqs + 1].t - log[1].t < window
          /\ ~log[maxReqs + 1].ok

\* C6: after a refusal, the first call made more than one window after the
\* oldest admission counted at that refusal is admitted, however many refused
\* calls were made in between.
C6_RecoveryAfterWindow ==
    \A ip \in ClientIPs :
      LET log == callLog[ip]
      IN  \A j \in 1..Len(log) : \A k \in (j + 1)..Len(log) :
            (/\ ~log[j].ok
             /\ Len(log[j].counted) > 0
             /\ \A m \in (j + 1)..(k - 1) : ~log[m].ok
             /\ log[k].t > log[j].counted[1] + window)
            => log[k].ok

\* A refusal, a later refused call, then the admission after the window.
C6_Witness ==
    \E ip \in ClientIPs :
      LET log == callLog[ip]
      IN  \E j \in 1..Len(log) : \E k \in (j + 2)..Len(log) :
            /\ ~log[j].ok
            /\ Len(log[j].counted) > 0
            /\ \A m \in (j + 1)..(k - 1) : ~log[m].ok /\ log[m].t > log[j].t
            /\ log[k].t > log[j].counted[1] + window
            /\ log[k].ok

\* C7: when the probe is answered with a status other than 200 (validation
\* ends without error, valid = false) the client receives 404, no token is
\* issued, no cookie is set and nothing is forwarded; an
\* invalid_share_attempt event is recorded, once, exactly when the backend
\* status was 404.
C7_InvalidShare ==
    (/\ last.handled
     /\ last.out.probed
     /\ ~last.out.probe.err
     /\ last.out.probe.status # 200)
    => (/\ last.out.status = 404
        /\ last.out.validations = <<[valid |-> FALSE, status |-> last.out.probe.status]>>
        /\ last.out.generated = <<>>
        /\ last.out.setCookie = <<>>
        /\ ~last.out.forwarded
        /\ Cardinality({i \in 1..Len(last.out.events) :
                          last.out.events[i] = "invalid_share_attempt"})
             = IF last.out.probe.status = 404 THEN 1 ELSE 0)

\* The backend answers the probe 401: 404 to the client and no event.
C7_Witness ==
    /\ last.handled
    /\ last.host = "photos"
    /\ last.out.probe = [err |-> FALSE, status |-> 401]
    /\ last.out.status = 404
    /\ last.out.events = <<>>

\* C8: a request whose Host is no key of the proxy table is answered 404 and
\* nothing else happens: no token check, no share-path test, no rate limiter
\* call, no validation, no event; the limiter map and the set of issued
\* tokens are as before.
C8_UnknownHost ==
    [][(~last.handled /\ last'.handled /\ last'.host \notin DOMAIN Services)
       => (/\ last'.out.status = 404
           /\ last'.out.access = <<404>>
           /\ ~last'.out.forwarded
           /\ ~last'.out.rlCalled
           /\ ~last'.out.validated
           /\ ~last'.out.probed
           /\ last'.out.generated = <<>>
           /\ last'.out.setCookie = <<>>
           /\ last'.out.events = <<>>
           /\ requests' = requests
           /\ issued' = issued)]_vars

\* An unknown hostname, a valid token, a share path, and a limiter map that
\* holds entries that have left the window.
C8_Witness ==
    /\ last.handled
    /\ last.host = "other"
    /\ CarriesValidToken
    /\ last.path = <<"/", "s", "/", "A">>
    /\ last.out.status = 404
    /\ "ip1" \in DOMAIN requests
    /\ GetRequestCount(requests, "ip1", now) < Len(requests["ip1"])

\* C9: a request to a configured hostname that carries no valid token and
\* whose path starts with none of the service's share prefixes is answered
\* 403; it is not forwarded, the rate limiter is not consulted and no
\* validation is run.
C9_NonSharePathDenied ==
    (/\ last.handled
     /\ Configured(last.host)
     /\ ~CarriesValidToken
     /\ ~OnSharePath(last.host))
    => (/\ last.out.status = 403
        /\ ~last.out.forwarded
        /\ ~last.out.rlCalled
        /\ ~last.out.validated
        /\ ~last.out.probed
        /\ last.out.generated = <<>>
        /\ last.out.setCookie = <<>>)

\* The share path of another service, with a cookie that fails validation.
C9_Witness ==
    /\ last.handled
    /\ last.host = "photos"
    /\ last.path = <<"/", "s", "/", "A">>
    /\ last.cookie # <<>>
    /\ ~CarriesValidToken
    /\ last.out.status = 403
    /\ last.out.events = <<"invalid_token">>

\* C10: on a service with FullAccessAfterKnock = false no request makes the
\* handler generate a token or set a cookie, and a knock whose probe is
\* answered 200 is forwarded.
C10_NoSessionService ==
    (/\ last.handled
     /\ Configured(last.host)
     /\ ~ServiceTypeOf(last.host).FullAccessAfterKnock)
    => (/\ last.out.generated = <<>>
        /\ last.out.setCookie = <<>>
        /\ (last.out.probe = [err |-> FALSE, status |-> 200]
              => last.out.forwarded /\ last.out.events = <<"access_granted">>))

C10_Witness ==
    /\ last.handled
    /\ last.host = "docs"
    /\ last.out.probe = [err |-> FALSE, status |-> 200]
    /\ last.out.forwarded
    /\ last.out.status = 200
    /\ last.out.setCookie = <<>>
    /\ issued = {}

\* C11: on a service that grants no session (FullAccessAfterKnock = false),
\* every request that is forwarded to the backend has a path starting with a
\* share prefix of the service, was admitted by the rate limiter and was
\* validated valid within that same request, whether or not it carries a
\* validly signed, unexpired token.
C11_SingleRequestService ==
    (last.handled /\ Configured(last.host) /\ ~GrantsSession(last.host)
       /\ last.out.forwarded)
    => (/\ OnSharePath(last.host)
        /\ last.out.rlCalled
        /\ last.out.allowed
        /\ last.out.validated
        /\ last.out.validations = <<[valid |-> TRUE, status |-> 200]>>
        /\ last.out.generated = <<>>
        /\ last.out.setCookie = <<>>)

\* A request to the Paperless hostname carries an issued, still valid token
\* and is forwarded after its own knock.
C11_Witness ==
    /\ last.handled
    /\ last.host = "docs"
    /\ CarriesValidToken
    /\ last.cookie[1] \in issued
    /\ last.out.forwarded
    /\ last.out.allowed
    /\ last.out.probe = [err |-> FALSE, status |-> 200]

\* C12: for signing keys K1 # K2, every token GenerateToken returns under K1
\* is rejected by ValidateToken under K2, for every maxAge and at every
\* instant.
C12_KeySeparation ==
    (call.op = "ValidateToken" /\ call.from.signingKey # call.signingKey)
    => (call.result.err # "" /\ call.result.claims = <<>>)

\* A token made under one key with a positive lifetime is validated under
\* the other key before its expiry and fails on the signature.
C12_Witness ==
    /\ call.op = "ValidateToken"
    /\ call.from.signingKey = SigningKey
    /\ call.signingKey = OtherKey
    /\ call.from.maxAge > 0
    /\ call.at > call.from.at
    /\ call.at <= call.from.at + call.from.maxAge
    /\ call.result.err = "invalid token signature"

\* C13: for maxAge > 0, ValidateToken(GenerateToken(maxAge, K), K) succeeds
\* at the issuing instant with claims whose expiresAt = issuedAt + maxAge,
\* and fails at every instant after issuedAt + maxAge.
C13_RoundTripAndExpiry ==
    (/\ call.op = "ValidateToken"
     /\ call.from.signingKey = call.signingKey
     /\ call.from.maxAge > 0)
    => (/\ call.at = call.from.at
           => (/\ call.result.err = ""
               /\ call.result.claims =
                    <<[IssuedAt |-> call.from.at,
                       ExpiresAt |-> call.from.at + call.from.maxAge]>>)
        /\ call.at > call.from.at + call.from.maxAge
           => (call.result.err # "" /\ call.result.claims = <<>>))

\* A token that validated at its issuing instant under its own key is
\* validated again one instant after its expiresAt and fails.
C13_Witness ==
    /\ call.op = "ValidateToken"
    /\ call.from.signingKey = call.signingKey
    /\ call.from.maxAge > 0
    /\ call.at = call.from.at + call.from.maxAge + 1
    /\ call.result.err = "token expired"

\* The service of the host validates shares with a HEAD request.
ValidatesByHead(host) == Configured(host) /\ ServiceTypeOf(host).ValidateMethod = "head"

\* C14: validateByHead reports valid = true exactly when the backend answers
\* the HEAD probe with 200; an answer 404 or 401 is valid = false with that
\* status and no error; an unreachable backend is a non-nil error, never an
\* ordinary valid = false, and the handler answers it 500, not 404.
C14_HeadProbe ==
    (last.handled /\ ValidatesByHead(last.host) /\ last.out.probed)
    => (/\ ~last.out.probe.err
           => (/\ last.out.validations =
                     <<[valid |-> (last.out.probe.status = 200),
                        status |-> last.out.probe.status]>>
               /\ last.out.status # 500
               /\ last.out.probe.status # 200 => last.out.status = 404)
        /\ last.out.probe.err
           => (/\ last.out.validations = <<>>
               /\ last.out.status = 500
               /\ ~last.out.forwarded))

\* The NextCloud backend cannot be reached by the probe of a knock.
C14_Witness ==
    /\ last.handled
    /\ last.host = "cloud"
    /\ last.out.probed
    /\ last.out.probe = TransportError
    /\ last.out.status = 500

\* C15: for every non-empty key K without '/' and '?', extractShareKey
\* returns K for prefix + K, for prefix + K + "/" + anything and for
\* prefix + K + "?" + anything; for a path that does not start with the
\* prefix it returns the empty string.
C15_ExtractShareKey ==
    call.op = "extractShareKey"
    => (/\ \A K \in ShareKeys \ {<<>>}, tail \in ShareTails :
             call.sharePath = call.prefix \o K \o tail => call.result = K
        /\ (\/ Len(call.sharePath) < Len(call.prefix)
            \/ \E j \in 1..Len(call.prefix) : call.sharePath[j] # call.prefix[j])
           => call.result = <<>>)

\* The key is followed by a query that itself holds a slash.
C15_Witness ==
    /\ call.op = "extractShareKey"
    /\ call.prefix = <<"/", "s", "h", "a", "r", "e", "/">>
    /\ call.sharePath = call.prefix \o <<"k", "X", "?", "a", "/">>
    /\ call.result = <<"k", "X">>

\* C16: when forwarding fails because the backend cannot be reached, the
\* client is answered 502 and the handler returns (the gateway then is where
\* it takes the next request).
C16_ForwardFailure ==
    (last.handled /\ last.out.forwarded /\ last.out.fwd.err)
    => (last.out.status = 502 /\ ENABLED Return)

\* A valid knock on Immich is granted a session and the forwarding of that
\* same request fails.
C16_Witness ==
    /\ last.handled
    /\ last.host = "photos"
    /\ last.out.forwarded
    /\ last.out.fwd = TransportError
    /\ last.out.status = 502
    /\ Len(last.out.setCookie) = 1

\* C17: whenever no service URL is configured or SIGNING_KEY is empty,
\* config.Load returns an error and main exits before a limiter or a listener
\* is created; whenever Load succeeds the service table and the signing key
\* are non-empty.
C17_FailFast ==
    /\ (/\ proc.pc # "start"
        /\ \/ /\ proc.env.NEXTCLOUD_URL = ""
              /\ proc.env.IMMICH_URL = ""
              /\ proc.env.PAPERLESS_URL = ""
              /\ proc.env.PHOTOPRISM_URL = ""
           \/ proc.env.SIGNING_KEY = "")
       => (/\ proc.pc = "exit(1)"
           /\ proc.err # ""
           /\ proc.cfg = <<>>
           /\ ~proc.limiter
           /\ ~proc.listener)
    /\ proc.cfg # <<>>
       => (/\ DOMAIN proc.cfg[1].Services # {}
           /\ proc.cfg[1].SigningKey # "")
    /\ (proc.limiter \/ proc.listener) => proc.cfg # <<>>

\* A service is configured, the signing key is not, and main has exited.
C17_Witness ==
    /\ proc.pc = "exit(1)"
    /\ proc.env.IMMICH_URL # ""
    /\ proc.env.NEXTCLOUD_URL = ""
    /\ proc.env.SIGNING_KEY = ""
    /\ proc.err = "SIGNING_KEY environment variable is required"

\* C18, Photoprism as the README has it: a configuration that sets
\* PHOTOPRISM_URL and SIGNING_KEY and no other service URL is accepted by
\* config.Load and yields a service table entry for the Photoprism hostname
\* whose share prefix is /s/.
C18_PhotoprismSupported ==
    (/\ proc.pc # "start"
     /\ proc.env.PHOTOPRISM_URL = "https://prism"
     /\ proc.env.SIGNING_KEY # ""
     /\ proc.env.NEXTCLOUD_URL = ""
     /\ proc.env.IMMICH_URL = ""
     /\ proc.env.PAPERLESS_URL = ""
     /\ loadNumbers(proc.env).err = "")
    => (/\ proc.cfg # <<>>
        /\ "prism" \in DOMAIN proc.cfg[1].Services
        /\ \E i \in 1..Len(SupportedServices[proc.cfg[1].Services["prism"].Type].SharePaths) :
              SupportedServices[proc.cfg[1].Services["prism"].Type].SharePaths[i]
                = <<"/", "s", "/">>)

\* C19, graceful shutdown: when the process has exited after a shutdown
\* signal it has no listener, and no request that was in flight when the
\* signal arrived is left without its outcome.
C19_GracefulShutdown ==
    proc.pc = "exited" => (~proc.listener /\ proc.inflight = 0)

\* The calls of ip that returned true with a timestamp in (t - window, t].
AdmittedIn(ip, t) ==
    {i \in 1..Len(callLog[ip]) :
        /\ callLog[ip][i].ok
        /\ callLog[ip][i].t > t - window
        /\ callLog[ip][i].t <= t}

\* C20: under every interleaving of the steps of concurrent IsAllowed calls
\* and cleanup passes, for every identity and every instant t at most maxReqs
\* calls returned true with a timestamp in (t - window, t]; two concurrent
\* calls never both take the last free slot.
C20_ConcurrentAdmissions ==
    \A ip \in ClientIPs, t \in 0..MaxTime : Cardinality(AdmittedIn(ip, t)) <= maxReqs

\* One goroutine has taken the last free slot of ip1, and the other one,
\* called for ip1 at the same instant, holds the mutex and has found the
\* window full.
C20_Witness ==
    /\ Len(callLog["ip1"]) >= maxReqs
    /\ callLog["ip1"][Len(callLog["ip1"])].ok
    /\ Len(callLog["ip1"][Len(callLog["ip1"])].counted) = maxReqs - 1
    /\ \E g \in RequestGoroutines :
          /\ gor[g].pc = "pruned"
          /\ gor[g].ip = "ip1"
          /\ gor[g].now = callLog["ip1"][Len(callLog["ip1"])].t
          /\ Len(gor[g].validRequests) = maxReqs
          /\ mutex = {g}

\* C21: one call IsAllowed(ip) that returns false leaves the window of ip
\* equal to its previous window without the expired entries (the refused
\* attempt is not added); one that returns true leaves it equal to that
\* pruned window with exactly one entry, now, appended; the windows of all
\* other identities are unchanged.  (Which side of the boundary now - window
\* counts as expired is left open here.)
C21_IsAllowedEffect ==
    [][\A ip \in ClientIPs :
          Len(callLog'[ip]) = Len(callLog[ip]) + 1
          => LET e == callLog'[ip][Len(callLog'[ip])]
                 old == IF ip \in DOMAIN requests THEN requests[ip] ELSE <<>>
                 Newer(x) == x > now - window
                 NotOlder(x) == x >= now - window
             IN  /\ ip \in DOMAIN requests'
                 /\ \E pruned \in {SelectSeq(old, Newer), SelectSeq(old, NotOlder)} :
                       requests'[ip] = IF e.ok THEN pruned \o <<now>> ELSE pruned
                 /\ \A other \in ClientIPs \ {ip} :
                       /\ other \in DOMAIN requests' <=> other \in DOMAIN requests
                       /\ other \in DOMAIN requests => requests'[other] = requests[other]
      ]_vars

\* A call of ip1 has just been refused: its window is what the call counted,
\* with an entry older than the refusal, while ip2 has a window of its own.
C21_Witness ==
    /\ Len(callLog["ip1"]) > maxReqs
    /\ ~callLog["ip1"][Len(callLog["ip1"])].ok
    /\ "ip1" \in DOMAIN requests
    /\ requests["ip1"] = callLog["ip1"][Len(callLog["ip1"])].counted
    /\ requests["ip1"][1] < callLog["ip1"][Len(callLog["ip1"])].t
    /\ "ip2" \in DOMAIN requests
    /\ requests["ip2"] # <<>>

\* The calls of ip before its i-th call that returned true at tmin or later.
AdmittedSince(ip, i, tmin) ==
    {j \in 1..(i - 1) : callLog[ip][j].ok /\ callLog[ip][j].t >= tmin}

\* C22 as stated, the closed window: every call of IsAllowed counts each
\* admission recorded at now - window or later, and GetRequestCount counts
\* the same, so an admission recorded exactly window ago still takes a slot.
\* The log only grows, so each call is judged in the states where it is the
\* latest call of its identity.
C22_Original ==
    \A ip \in ClientIPs :
       /\ LET i == Len(callLog[ip])
          IN  i > 0 =>
                Len(callLog[ip][i].counted)
                  = Cardinality(AdmittedSince(ip, i, callLog[ip][i].t - window))
       /\ GetRequestCount(requests, ip, now)
            = Cardinality(AdmittedSince(ip, Len(callLog[ip]) + 1, now - window))

\* C22 (amended), the half-open window: IsAllowed and GetRequestCount count
\* exactly the admissions recorded at t with now - window < t <= now; an
\* admission recorded exactly window ago is dropped and takes no slot.
C22_HalfOpenWindow ==
    \A ip \in ClientIPs :
       /\ LET i == Len(callLog[ip])
          IN  i > 0 =>
                Len(callLog[ip][i].counted)
                  = Cardinality(AdmittedSince(ip, i, callLog[ip][i].t - window + 1))
       /\ GetRequestCount(requests, ip, now)
            = Cardinality(AdmittedSince(ip, Len(callLog[ip]) + 1, now - window + 1))

\* A call is admitted although maxReqs admissions lie in the closed window
\* before it: one of them was recorded exactly window ago.
C22_Witness ==
    \E i \in 1..Len(callLog["ip1"]) :
       /\ callLog["ip1"][i].ok
       /\ Cardinality(AdmittedSince("ip1", i, callLog["ip1"][i].t - window)) = maxReqs
       /\ \E j \in 1..(i - 1) :
             callLog["ip1"][j].ok /\ callLog["ip1"][j].t = callLog["ip1"][i].t - window

\* C23 as stated: ValidateToken rejects a correctly signed token whenever the
\* current time is at or after its expiresAt, the instant now = expiresAt
\* included.
C23_Original ==
    (/\ call.op = "ValidateToken"
     /\ call.from.signingKey = call.signingKey
     /\ call.from.maxAge > 0
     /\ call.at >= call.from.at + call.from.maxAge)
    => call.result.err # ""

\* C23 (amended): ValidateToken rejects a correctly signed token exactly
\* when the current time is after its expiresAt; at the instant
\* now = expiresAt the token is still accepted and its claims are returned.
C23_ExpiryBoundary ==
    (call.op = "ValidateToken" /\ call.from.signingKey = call.signingKey)
    => (/\ call.at > call.from.at + call.from.maxAge
           => (call.result.err = "token expired" /\ call.result.claims = <<>>)
        /\ call.at <= call.from.at + call.from.maxAge
           => (/\ call.result.err = ""
               /\ call.result.claims =
                    <<[IssuedAt |-> call.from.at,
                       ExpiresAt |-> call.from.at + call.from.maxAge]>>))

\* A token with a positive lifetime is validated under its own key at the
\* instant of its expiresAt and is accepted.
C23_Witness ==
    /\ call.op = "ValidateToken"
    /\ call.from.signingKey = call.signingKey
    /\ call.from.maxAge > 0
    /\ call.at = call.from.at + call.from.maxAge
    /\ call.result.err = ""

\* The number of '.' separators in a token string.
Separators(token) == Cardinality({i \in 1..Len(token) : token[i] = Dot})

\* C24, the token format: ValidateToken rejects as malformed every string
\* that does not split on '.' into exactly two parts, that is every string
\* with zero or with two or more separators, a valid token with an extra
\* trailing or leading '.' included.
C24_TokenFormat ==
    (call.op = "ValidateAltered" /\ Separators(call.token) # 1)
    => (call.result.err = "invalid token format" /\ call.result.claims = <<>>)

\* C25: ValidateToken checks the signature before it decodes or inspects the
\* claims: a token whose claims part differs from what was signed (expiresAt
\* moved later, or no claims at all, under the old signature) is rejected
\* with the signature error whatever the time, and claims are returned only
\* for a token whose signature part is the HMAC of its claims part under the
\* validating key, and they are the claims of that part.
C25_NoPartialTrust ==
    /\ (call.op = "ValidateAltered" /\ call.alteration \in {"later expiry", "junk claims"})
       => (call.result.err = "invalid token signature" /\ call.result.claims = <<>>)
    /\ (call.op = "ValidateAltered" /\ call.result.claims # <<>>)
       => (/\ Len(call.token) >= 3
           /\ call.token[1].kind = "claims"
           /\ call.token[2] = [kind |-> "dot"]
           /\ call.token[3] = [kind |-> "hmac", key |-> call.signingKey,
                               text |-> <<call.token[1]>>]
           /\ call.result.claims = <<[IssuedAt |-> call.token[1].iat,
                                      ExpiresAt |-> call.token[1].exp]>>)
    /\ (call.op = "ValidateToken" /\ call.result.claims # <<>>)
       => call.from.signingKey = call.signingKey

\* A token that has expired is presented under its own key with its
\* expiresAt moved one instant later, at that later instant.
C25_Witness ==
    /\ call.op = "ValidateAltered"
    /\ call.alteration = "later expiry"
    /\ call.from.signingKey = call.signingKey
    /\ call.from.maxAge > 0
    /\ call.at = call.from.at + call.from.maxAge + 1
    /\ call.result.err = "invalid token signature"

\* C26: a request that is proxied on the strength of a valid token leaves
\* the map of the rate limiter as it was and is proxied even when the window
\* of its client identity is full; a handler run changes the map only when
\* it reaches the admission check of the share path branch.
C26_TokenLeavesLimiter ==
    [][(last = NoRequest /\ last' # NoRequest)
       => (/\ (GrantsSession(last'.host) /\ CarriesValidToken')
              => (/\ last'.out.forwarded
                  /\ ~last'.out.rlCalled
                  /\ requests' = requests)
           /\ requests' # requests
              => (/\ last'.out.rlCalled
                  /\ Configured(last'.host)
                  /\ OnSharePath(last.host)'
                  /\ ~(GrantsSession(last'.host) /\ CarriesValidToken')))
      ]_vars

\* A request with a valid token has been proxied while the window of its
\* client identity is full: IsAllowed would refuse the identity now.
C26_Witness ==
    /\ last.handled
    /\ GrantsSession(last.host)
    /\ CarriesValidToken
    /\ OnSharePath(last.host)
    /\ last.out.forwarded
    /\ ~IsAllowed(requests, last.clientIP, now).allowed

\* The same request without its cookie, with the same backend answers,
\* served on limiter map reqs at time t.
WithoutCookie(req, reqs, t) ==
    ServeHTTP([host |-> req.host, path |-> req.path, cookie |-> <<>>,
               clientIP |-> req.clientIP,
               probe |-> req.out.probe, fwd |-> req.out.fwd], reqs, t)

\* The cookie of the request fails ValidateToken at time t.
CarriesFailingToken(req, t) ==
    /\ req.cookie # <<>>
    /\ ValidateToken(req.cookie[1], SigningKey, t).err # ""

\* C27: a request whose cookie fails ValidateToken gets the status, the
\* cookie and the forwarding that the same request without a cookie gets,
\* for the same hostname, path, client identity, limiter map and backend
\* answers; the limiter map and the validation come out the same too.
C27_InvalidTokenIsNoSession ==
    [][(last = NoRequest /\ last' # NoRequest /\ CarriesFailingToken(last', now))
       => LET bare == WithoutCookie(last', requests, now)
          IN  /\ last'.out.status = bare.out.status
              /\ last'.out.setCookie = bare.out.setCookie
              /\ last'.out.forwarded = bare.out.forwarded
              /\ last'.out.generated = bare.out.generated
              /\ last'.out.rlCalled = bare.out.rlCalled
              /\ last'.out.validated = bare.out.validated
              /\ requests' = bare.requests
      ]_vars

\* A request with an expired token on a share path of a session-granting
\* hostname has been granted a fresh session and proxied.
C27_Witness ==
    /\ last.handled
    /\ GrantsSession(last.host)
    /\ last.cookie # <<>>
    /\ ValidateToken(last.cookie[1], SigningKey, now).err = "token expired"
    /\ last.out.forwarded
    /\ last.out.setCookie # <<>>

\* The number of security events of one kind in a handler run's events.
EventCount(events, kind) ==
    Cardinality({i \in 1..Len(events) : events[i] = kind})

\* C28 as stated: every request to a configured hostname whose cookie fails
\* ValidateToken records exactly one invalid_token security event, whatever
\* the session policy of the service.
C28_Original ==
    (last.handled /\ Configured(last.host) /\ CarriesFailingToken(last, now))
    => EventCount(last.out.events, "invalid_token") = 1

\* C28 amended: a request to a configured hostname records exactly one
\* invalid_token security event when the service grants sessions and the
\* cookie fails ValidateToken, whatever the final outcome, and no such
\* event otherwise: on a service without sessions the cookie is not read.
C28_InvalidTokenEvent ==
    (last.handled /\ Configured(last.host))
    => EventCount(last.out.events, "invalid_token")
         = IF GrantsSession(last.host) /\ CarriesFailingToken(last, now)
           THEN 1 ELSE 0

\* A request with a failing cookie on a path outside the share prefixes of a
\* session-granting hostname was refused with 403 and recorded the event.
C28_Witness ==
    /\ last.handled
    /\ GrantsSession(last.host)
    /\ CarriesFailingToken(last, now)
    /\ ~OnSharePath(last.host)
    /\ last.out.status = 403
    /\ EventCount(last.out.events, "invalid_token") = 1

\* The hostname's service validates shares by the Immich API probe.
ValidatesByImmichAPI(host) ==
    /\ Configured(host)
    /\ ServiceTypeOf(host).ValidateMethod = "immichApi"

\* C29: for every path under the share prefix validateImmichAPI asks the
\* backend API endpoint and is valid exactly when the answer is 200; it
\* returns an error, which the handler answers with 500, only when the probe
\* failed in transport, never for a path the backend was not asked about.
C29_APIKeyProbe ==
    (last.handled /\ ValidatesByImmichAPI(last.host) /\ last.out.validated)
    => LET v == validateImmichAPI(last.path, last.out.probe)
       IN  /\ last.out.probed
           /\ v.asked
           /\ v.valid <=> (~last.out.probe.err /\ last.out.probe.status = 200)
           /\ v.err <=> last.out.probe.err
           /\ (last.out.status = 500) <=> last.out.probe.err

\* C30: every request handled by ServeHTTP ends in exactly one outcome,
\* either forwarded to the backend or refused with one error status, and
\* records exactly one access record, on every path through the handler.
C30_OneAccessRecord ==
    last.handled
    => /\ Len(last.out.access) = 1
       /\ last.out.status # 0
       /\ IF last.out.forwarded
          THEN /\ last.out.access[1] = 200
               /\ last.out.status = ProxyStatus(last.out.fwd)
          ELSE /\ last.out.access[1] = last.out.status
               /\ last.out.status \in {403, 404, 429, 500}

\* A request refused by the rate limiter, after an invalid token was noted,
\* ended with 429 and one access record.
C30_Witness ==
    /\ last.handled
    /\ last.out.rlCalled
    /\ ~last.out.allowed
    /\ last.out.status = 429
    /\ last.out.events = <<"invalid_token", "rate_limit_exceeded">>
    /\ last.out.access = <<429>>

\* C31: a validation record is emitted for every request in which the
\* validation strategy was invoked, the requests whose probe ended in a
\* transport error included, and for no other request.
C31_ValidationRecord ==
    last.handled
    => Len(last.out.validations) = (IF last.out.validated THEN 1 ELSE 0)

\* C32: every request reaches a terminal outcome even when the backend
\* accepts the connection and never answers: a handler that waits for the
\* validation probe is, after a bounded time, done with its request.
C32_ProbeGivesUp ==
    Probing ~> last.handled

\* C33: after each pass of the cleanup task no identity remains in the map
\* whose entries are all outside the window, and every identity that stops
\* making requests is in the end removed from the map, the cleanup task
\* running on.
C33_Compaction ==
    /\ [][cleanup => \A ip \in DOMAIN requests' :
                        ValidRequests(requests', ip, now') # <<>>]_vars
    /\ \A ip \in ClientIPs : <>[](ip \notin DOMAIN requests)

\* An identity that was admitted is no longer in the map: a cleanup pass
\* removed it, while the other identity, admitted later, is still there.
C33_Witness ==
    /\ \E i \in 1..Len(callLog["ip1"]) : callLog["ip1"][i].ok
    /\ "ip1" \notin DOMAIN requests
    /\ "ip2" \in DOMAIN requests

\* The map of a limiter that received the first i calls of ip's call log at
\* their instants and on which no cleanup pass ever ran.
RECURSIVE WithoutCleanup(_, _)
WithoutCleanup(ip, i) ==
    IF i = 0 THEN <<>>
    ELSE IsAllowed(WithoutCleanup(ip, i - 1), ip, callLog[ip][i].t).requests

\* C34: a cleanup pass removes no timestamp that is still inside the window,
\* and every call of IsAllowed and every GetRequestCount gives the result it
\* gives on a limiter that got the same calls at the same instants and no
\* cleanup pass at all.
C34_CleanupTransparent ==
    /\ [][cleanup => \A ip \in ClientIPs :
                        ValidRequests(requests', ip, now)
                          = ValidRequests(requests, ip, now)]_vars
    /\ [](\A i \in 1..Len(callLog["ip1"]) :
             LET plain == WithoutCleanup("ip1", i - 1)
                 t == callLog["ip1"][i].t
             IN  /\ callLog["ip1"][i].ok = IsAllowed(plain, "ip1", t).allowed
                 /\ Len(callLog["ip1"][i].counted) = GetRequestCount(plain, "ip1", t))
    /\ [](GetRequestCount(requests, "ip1", now)
            = GetRequestCount(WithoutCleanup("ip1", Len(callLog["ip1"])), "ip1", now))

\* After several calls a cleanup pass has shortened the list of the identity,
\* so that the map differs from the one without cleanup, and has left the
\* entries that are still inside the window.
C34_Witness ==
    LET n == Len(callLog["ip1"])
    IN  /\ n >= 2
        /\ "ip1" \in DOMAIN requests
        /\ requests["ip1"] # WithoutCleanup("ip1", n)["ip1"]
        /\ GetRequestCount(requests, "ip1", now) > 0

\* The knocks of ip before its i-th that were admitted after tmin, on
\* whatever hostname.
KnocksAdmittedAfter(ip, i, tmin) ==
    {j \in 1..(i - 1) : callLog[ip][j].ok /\ callLog[ip][j].t > tmin}

\* C35: the limit is per client identity over all hostnames: a knock is
\* admitted exactly when fewer than maxReqs knocks of the identity, on any
\* configured hostname, were admitted inside the window, and a knock that is
\* not admitted is answered 429.
C35_GlobalPerIdentity ==
    /\ \A i \in 1..Len(callLog["ip1"]) :
          callLog["ip1"][i].ok
            <=> Cardinality(KnocksAdmittedAfter("ip1", i, callLog["ip1"][i].t - window))
                  < maxReqs
    /\ (last.handled /\ last.out.rlCalled /\ ~last.out.allowed)
          => last.out.status = 429

\* The latest knock was answered 429 on a hostname on which the identity had
\* no admitted knock in the window: the admitted knocks that fill the window
\* were made on other hostnames, at least two of them.
C35_Witness ==
    LET log == callLog["ip1"]
        n == Len(log)
        before == KnocksAdmittedAfter("ip1", n, now - window)
    IN  /\ n > 0
        /\ last.handled
        /\ last.out.status = 429
        /\ ~log[n].ok
        /\ \A j \in before : log[j].host # last.host
        /\ \E j \in before, k \in before : log[j].host # log[k].host

\* The hostnames of the gateway whose service grants sessions.
SessionHostnames == {host \in DOMAIN Services : GrantsSession(host)}

\* C36: a token is not bound to the service that issued it: a token issued
\* after a knock on one session-granting hostname is accepted by the token
\* check on every session-granting hostname of the gateway, for every path,
\* at every instant up to its expiresAt, and the request is forwarded
\* without the limiter and without validation.
C36_TokenNotBoundToService ==
    /\ \A token \in issued : \A host \in SessionHostnames : \A path \in Paths :
          now <= token[1].exp
            => LET out == ServeHTTP([Request0(host, path, <<token>>, "ip1")
                                       EXCEPT !.fwd = Answer(200)],
                                    requests, now).out
               IN  out.forwarded /\ ~out.rlCalled /\ ~out.validated
    /\ (/\ last.handled
        /\ last.host \in SessionHostnames
        /\ last.cookie # <<>>
        /\ last.cookie[1] \in issued
        /\ now <= last.cookie[1][1].exp)
       => (last.out.forwarded /\ ~last.out.rlCalled /\ ~last.out.validated)

\* A token that was issued after a knock on the Immich hostname, the only
\* hostname knocked at that instant, has been accepted on the Nextcloud
\* hostname for a path outside its share prefix.
C36_Witness ==
    /\ last.handled
    /\ last.host = "cloud"
    /\ last.cookie # <<>>
    /\ last.cookie[1] \in issued
    /\ ~OnSharePath(last.host)
    /\ last.out.forwarded
    /\ \E j \in 1..Len(callLog["ip1"]) :
          /\ callLog["ip1"][j].ok
          /\ callLog["ip1"][j].t = last.cookie[1][1].iat
    /\ \A j \in 1..Len(callLog["ip1"]) :
          callLog["ip1"][j].t = last.cookie[1][1].iat
            => callLog["ip1"][j].host = "photos"

\* C37: for every configuration that config.Load accepts, a zero or negative
\* RATE_LIMIT_WINDOW included, creating the rate limiter and running its
\* cleanup task never faults: nothing but a configuration error reported at
\* startup halts the process.
C37_NoFaultAfterLoad ==
    proc.cfg # <<>> => proc.pc # "panic"

\* C38: the status in the access record of a request equals the status the
\* client received, on every path through the handler, the forwarded ones
\* included when the backend answers another status than 200 or forwarding
\* fails with 502.
C38_AccessRecordStatus ==
    last.handled => last.out.access = <<last.out.status>>

\* The latest request was a granted knock on a session-granting hostname:
\* the share was found valid and access_granted was recorded.
GrantedSessionKnock ==
    /\ last.handled
    /\ GrantsSession(last.host)
    /\ last.out.validated
    /\ last.out.validations # <<>>
    /\ last.out.validations[1].valid

\* C39: on a valid knock to a session-granting service the handler generates
\* the token, adds the Set-Cookie header, records the session and records
\* access_granted, in that order, and only then forwards the request; so
\* these effects occur whatever the forwarding outcome, and the token is one
\* that later requests can use, also when forwarding failed with 502.
C39_GrantBeforeForward ==
    GrantedSessionKnock
    => /\ last.out.steps = <<"auth.GenerateToken", "http.SetCookie",
                             "RecordActiveSession", "access_granted",
                             "serviceProxy.ServeHTTP">>
       /\ Len(last.out.generated) = 1
       /\ Len(last.out.setCookie) = 1
       /\ last.out.setCookie[1].Value = last.out.generated[1]
       /\ last.out.events[Len(last.out.events)] = "access_granted"
       /\ last.out.forwarded
       /\ last.out.status = ProxyStatus(last.out.fwd)
       /\ last.out.generated[1] \in issued
       /\ \A host \in {h \in DOMAIN Services : GrantsSession(h)} :
             ServeHTTP([Request0(host, last.path, <<last.out.generated[1]>>,
                                 last.clientIP) EXCEPT !.fwd = Answer(200)],
                       requests, now).out.status = 200

\* A granted knock whose forwarding failed: the client was answered 502 and
\* was sent the cookie with the token.
C39_Witness ==
    /\ GrantedSessionKnock
    /\ last.out.fwd = TransportError
    /\ last.out.status = 502
    /\ Len(last.out.setCookie) = 1

\* The text of s before its first comma, all of s when it has none.
FirstElement(s) ==
    LET commas == {i \in 1..Len(s) : s[i] = ","}
    IN  IF commas = {} THEN s
        ELSE SubSeq(s, 1, (CHOOSE i \in commas : \A j \in commas : i <= j) - 1)

\* The text of an address before its last colon, all of it when it has none.
BeforePort(s) ==
    LET colons == {i \in 1..Len(s) : s[i] = ":"}
    IN  IF colons = {} THEN s
        ELSE SubSeq(s, 1, (CHOOSE i \in colons : \A j \in colons : i >= j) - 1)

\* res is s without its leading and trailing characters of cutset.
IsTrimOf(res, s, cutset) ==
    \E i \in 1..(Len(s) + 1), j \in 0..Len(s) :
       /\ res = SubSeq(s, i, j)
       /\ \A m \in 1..(i - 1) : s[m] \in cutset
       /\ \A m \in (j + 1)..Len(s) : s[m] \in cutset
       /\ res # <<>> => (res[1] \notin cutset /\ res[Len(res)] \notin cutset)

\* C40: the identity the limiter is asked about is the first comma-separated
\* element of X-Forwarded-For when that header is not empty, else X-Real-IP,
\* else the host part of RemoteAddr; the knock is admitted exactly when that
\* identity has room in its window, and it leaves the entries of every
\* other identity as they were: requests of one connection that differ in
\* X-Forwarded-For are counted in different windows.
C40_IdentityFromHeaders ==
    [][(last = NoRequest /\ last' # NoRequest)
       => LET id == last'.clientIP
          IN  /\ IF last'.xff # <<>>
                 THEN IsTrimOf(id, FirstElement(last'.xff), {" "})
                 ELSE IF last'.xri # <<>>
                 THEN IsTrimOf(id, last'.xri, {" "})
                 ELSE IsTrimOf(id, BeforePort(last'.remoteAddr), {"[", "]"})
              /\ last'.out.rlCalled
              /\ last'.out.allowed <=> GetRequestCount(requests, id, now) < maxReqs
              /\ (last'.out.status = 429) <=> ~last'.out.allowed
              /\ \A k \in DOMAIN requests \ {id} :
                    k \in DOMAIN requests' /\ requests'[k] = requests[k]
      ]_vars

\* A knock was admitted under the identity its X-Forwarded-For names, while
\* the same knock over the same connection with another X-Forwarded-For, or
\* with none, would be refused: the window of that other identity is full.
C40_Witness ==
    /\ last.handled
    /\ "xff" \in DOMAIN last
    /\ last.xff # <<>>
    /\ last.out.allowed
    /\ \E xff \in ForwardedFors :
          LET other == getClientIP(xff, last.xri, last.remoteAddr)
          IN  /\ other # last.clientIP
              /\ ~IsAllowed(requests, other, now).allowed
    /\ ~IsAllowed(requests, getClientIP(<<>>, <<>>, last.remoteAddr), now).allowed

====
